---------------------------- MODULE Spec2Model ----------------------------
(***************************************************************************)
(* Depreciation calculation engine of the EOB tool (eob_tool/common.py,    *)
(* eob_tool/commercial.py).                                                *)
(*                                                                         *)
(* Numbers.  The engine computes on Python floats.  The model computes on  *)
(* exact rationals written as integer numerators over a named denominator: *)
(*   - a basis handed to the engine is a number of half dollars            *)
(*     (BasisDen = 2), so that fractional bases and exact halves occur;    *)
(*   - a MACRS rate is a number of 1/100000 (RateDen);                     *)
(*   - a bonus rate is a number of 1/100 (BonusDen);                       *)
(*   - a guideline fraction is a number of quarters (FracDen = 4).         *)
(* Dates are records [year, month, day] compared lexicographically.        *)
(***************************************************************************)
EXTENDS Integers, Sequences, FiniteSets, TLC

VARIABLES
    inp,      \* arguments of the lookback / full-schedule request
    lb,       \* <<>> or <<LookbackResult>> returned by compute_lookback
    fs,       \* <<>> or <<schedule>> returned by compute_full_schedule
    bdate,    \* argument of the bonus-rate lookup
    brate,    \* <<>> or <<rate>> returned by get_bonus_rate
    cin,      \* arguments of the commercial request
    cout,     \* <<>> or <<result>> returned by compute_commercial
    mq,       \* arguments of the property-type match
    mres,     \* <<>> or <<result>> returned by _match_row
    rin,      \* arguments of the residential request
    rout,     \* <<>> or <<result>> returned by compute_residential
    rep,      \* the request that is issued twice
    clock,    \* the current year, read by date.today()
    first,    \* <<>> or <<result>> of the first call
    second,   \* <<>> or <<result>> of the second call
    rateq,    \* arguments of the building-rate lookup
    rateres,  \* <<>> or <<rate>> returned by building_rate
    seen,     \* _seen_actions: actionUuid -> time of recording
    now,      \* time.time(), in seconds
    hook,     \* the webhook deliveries and how far each handler got
    lastcall, \* <<>> or <<the last _seen_action call>>
    xin,      \* argument of excel_round, a binary floating-point number
    xout      \* <<>> or <<value>> returned by excel_round

vars == <<inp, lb, fs, bdate, brate, cin, cout, mq, mres, rin, rout, rep, clock, first, second, rateq, rateres, seen, now, hook, lastcall,
                 xin, xout>>

---------------------------------------------------------------------------
(* Denominators of the fixed-point representation *)
BasisDen == 2
RateDen == 100000
BonusDen == 100
FracDen == 4

(* Bounds of the explored input space *)
MaxBasisHalves == 6
StudySpan == 44
MaxComBasisHalves == 9
LastBonusYear == 2026

FirstYear == 2021
MinBasisHalves == 0 - 3
BigBases == {10000, 24691, 50001}
InServiceYears == {FirstYear, FirstYear + 3}
FirstBonusYear == 2000
BonusDays == {1, 5, 6, 8, 9, 10, 11, 19, 20, 27, 28}

---------------------------------------------------------------------------
(* Rounding kernel *)

Max(a, b) == IF a >= b THEN a ELSE b
Min(a, b) == IF a <= b THEN a ELSE b

(* excel_round(num/den, 0) for den > 0: y >= 0 -> floor(y + 0.5),          *)
(* y < 0 -> ceil(y - 0.5) = -floor(-y + 0.5).                              *)
excel_round_banker(num, den) ==
    LET q == num \div den
        r == num - q * den
    IN  IF 2 * r < den THEN q
        ELSE IF 2 * r > den THEN q + 1
        ELSE IF q % 2 = 0 THEN q ELSE q + 1

excel_round(num, den) ==
    IF num >= 0
    THEN (2 * num + den) \div (2 * den)
    ELSE 0 - ((2 * (0 - num) + den) \div (2 * den))

(* clamp01 on a fraction numerator over FracDen *)
clamp01(x) == Max(0, Min(FracDen, x))

---------------------------------------------------------------------------
(* Dates *)

Date(y, m, d) == [year |-> y, month |-> m, day |-> d]

DateLE(a, b) ==
    \/ a.year < b.year
    \/ a.year = b.year /\ a.month < b.month
    \/ a.year = b.year /\ a.month = b.month /\ a.day <= b.day

---------------------------------------------------------------------------
(* Rate tables *)

BONUS_SCHEDULE == <<
    <<Date(1900, 1, 1),  Date(2001, 9, 10),  0>>,
    <<Date(2001, 9, 11), Date(2003, 5, 5),   30>>,
    <<Date(2003, 5, 6),  Date(2004, 12, 31), 50>>,
    <<Date(2005, 1, 1),  Date(2007, 12, 31), 0>>,
    <<Date(2008, 1, 1),  Date(2010, 9, 8),   50>>,
    <<Date(2010, 9, 9),  Date(2011, 12, 31), 100>>,
    <<Date(2012, 1, 1),  Date(2017, 9, 27),  50>>,
    <<Date(2017, 9, 28), Date(2022, 12, 31), 100>>,
    <<Date(2023, 1, 1),  Date(2023, 12, 31), 80>>,
    <<Date(2024, 1, 1),  Date(2024, 12, 31), 60>>,
    <<Date(2025, 1, 1),  Date(2025, 1, 19),  40>>,
    <<Date(2025, 1, 20), Date(2099, 12, 31), 0>> >>

(* First definition of get_bonus_rate: first range containing the date *)
RECURSIVE BonusScan(_, _)
BonusScan(d, i) ==
    IF i > Len(BONUS_SCHEDULE) THEN 0
    ELSE IF DateLE(BONUS_SCHEDULE[i][1], d) /\ DateLE(d, BONUS_SCHEDULE[i][2])
         THEN BONUS_SCHEDULE[i][3]
         ELSE BonusScan(d, i + 1)

get_bonus_rate_schedule(in_service_date) == BonusScan(in_service_date, 1)

(* Second definition of get_bonus_rate; it rebinds the name, so it is the  *)
(* one every call in the module reaches.                                   *)
get_bonus_rate(in_service_date) == 80

MACRS_5_YEAR == <<20000, 32000, 19200, 11520, 11520, 5760>>

MACRS_7_YEAR == <<14290, 24490, 17490, 12490, 8930, 8920, 8930, 4460>>

MACRS_15_YEAR == <<5000, 9500, 8550, 7700, 6930, 6230, 5900, 5900,
                   5910, 5900, 5910, 5900, 5910, 5900, 5910, 2950>>

MACRS_27_5_YEAR ==
    [yr \in 1..29 |->
        IF yr = 1 THEN <<3485, 3182, 2879, 2576, 2273, 1970,
                         1667, 1364, 1061, 758, 455, 152>>
        ELSE IF yr = 28 THEN <<1970, 2273, 2576, 2879, 3182, 3485,
                               3636, 3636, 3636, 3636, 3636, 3636>>
        ELSE IF yr = 29 THEN <<0, 0, 0, 0, 0, 0,
                               152, 455, 758, 1061, 1364, 1667>>
        ELSE [m \in 1..12 |-> 3636]]

MACRS_39_YEAR ==
    [yr \in 1..40 |->
        IF yr = 1 THEN <<2461, 2247, 2033, 1819, 1605, 1391,
                         1177, 963, 749, 535, 321, 107>>
        ELSE IF yr = 40 THEN <<107, 321, 535, 749, 963, 1177,
                               1391, 1605, 1819, 2033, 2247, 2461>>
        ELSE [m \in 1..12 |-> 2564]]

building_rate_flat_interior(year_index, in_service_month, is_residential) ==
    LET table == IF is_residential THEN MACRS_27_5_YEAR ELSE MACRS_39_YEAR
        max_year == IF is_residential THEN 29 ELSE 40
        m == Max(1, Min(12, in_service_month))
    IN  IF year_index < 1 \/ year_index > max_year THEN 0
        ELSE IF year_index > 1 /\ year_index < max_year THEN table[2][m]
        ELSE table[year_index][m]

building_rate(year_index, in_service_month, is_residential) ==
    LET table == IF is_residential THEN MACRS_27_5_YEAR ELSE MACRS_39_YEAR
        max_year == IF is_residential THEN 29 ELSE 40
        m == Max(1, Min(12, in_service_month))
    IN  IF year_index < 1 \/ year_index > max_year THEN 0
        ELSE table[year_index][m]

macrs_rate(asset_life, year_index) ==
    LET table == IF asset_life = "5" THEN MACRS_5_YEAR
                 ELSE IF asset_life = "7" THEN MACRS_7_YEAR
                 ELSE IF asset_life = "15" THEN MACRS_15_YEAR
                 ELSE <<>>
    IN  IF year_index \in DOMAIN table THEN table[year_index] ELSE 0

(* max_years as chosen in compute_lookback and compute_full_schedule *)
max_years_of_long(asset_kind, is_residential_building) ==
    IF asset_kind = "building"
    THEN (IF is_residential_building THEN 30 ELSE 41)
    ELSE IF asset_kind = "5" THEN 7
    ELSE IF asset_kind = "7" THEN 9
    ELSE IF asset_kind = "15" THEN 17
    ELSE 0

max_years_of(asset_kind, is_residential_building) ==
    IF asset_kind = "building"
    THEN (IF is_residential_building THEN 29 ELSE 40)
    ELSE IF asset_kind = "5" THEN 6
    ELSE IF asset_kind = "7" THEN 8
    ELSE IF asset_kind = "15" THEN 16
    ELSE 0

---------------------------------------------------------------------------
(* Lookback / full-schedule generator *)

LookbackYearRow(cal_year, year_index, rate, annual, cumulative) ==
    [calendar_year |-> cal_year, depreciation_year |-> year_index,
     rate |-> rate, depreciation |-> annual, cumulative |-> cumulative]

(* Rate of one schedule year, as both generators look it up *)
rate_of_january(asset_kind, year_index, in_month, is_residential_building) ==
    IF asset_kind = "building"
    THEN building_rate(year_index, 1, is_residential_building)
    ELSE macrs_rate(asset_kind, year_index)

rate_of(asset_kind, year_index, in_month, is_residential_building) ==
    IF asset_kind = "building"
    THEN building_rate(year_index, in_month, is_residential_building)
    ELSE macrs_rate(asset_kind, year_index)

(* Guard of the zeroed result: basis_i <= 0 or study_year before the      *)
(* in-service year.                                                         *)
is_degenerate_basis_only(basis_i, study_year, in_service_date) ==
    basis_i <= 0

is_degenerate(basis_i, study_year, in_service_date) ==
    basis_i <= 0 \/ study_year < in_service_date.year

(* bonus_rate / bonus_amount / depreciable_basis of the two branches on     *)
(* asset_kind.                                                              *)
bonus_of(basis_i, in_service_date, asset_kind) ==
    IF asset_kind = "building"
    THEN [bonus_rate |-> 0, bonus_amount |-> 0, depreciable_basis |-> basis_i]
    ELSE LET bonus_rate == get_bonus_rate(in_service_date)
             bonus_amount == excel_round(basis_i * bonus_rate, BonusDen)
         IN  [bonus_rate |-> bonus_rate, bonus_amount |-> bonus_amount,
              depreciable_basis |-> basis_i - bonus_amount]

(* `cumulative = bonus_amount` before the loop *)
initial_cumulative_zero(bonus_amount) == 0

initial_cumulative(bonus_amount) == bonus_amount

(* `if cal_year == study_year: current_year_dep = annual` *)
current_year_update_last(cal_year, study_year, annual, current_year_dep) ==
    annual

current_year_update(cal_year, study_year, annual, current_year_dep) ==
    IF cal_year = study_year THEN annual ELSE current_year_dep

(* The loop `for cal_year in range(in_service_date.year, study_year + 1)`  *)
(* of compute_lookback; st carries year_index, cumulative,                  *)
(* current_year_dep and rows.                                               *)
RECURSIVE LookbackLoop(_, _, _, _, _, _, _, _)
LookbackLoop(cal_year, study_year, asset_kind, is_res, in_month, depreciable_basis, max_years, st) ==
    IF cal_year > study_year \/ st.year_index > max_years THEN st
    ELSE LET rate == rate_of(asset_kind, st.year_index, in_month, is_res)
             annual == excel_round(depreciable_basis * rate, RateDen)
             cumulative == st.cumulative + annual
         IN  LookbackLoop(cal_year + 1, study_year, asset_kind, is_res,
                 in_month, depreciable_basis, max_years,
                 [year_index |-> st.year_index + 1,
                  cumulative |-> cumulative,
                  current_year_dep |->
                      current_year_update(cal_year, study_year, annual,
                                          st.current_year_dep),
                  rows |-> Append(st.rows,
                      LookbackYearRow(cal_year, st.year_index, rate,
                                      annual, cumulative))])

compute_lookback(basis, in_service_date, study_year, asset_kind, is_residential_building) ==
    LET basis_i == excel_round(basis, BasisDen)
    IN  IF is_degenerate(basis_i, study_year, in_service_date)
        THEN [original_basis |-> basis_i,
              bonus_rate |-> 0,
              bonus_amount |-> 0,
              depreciable_basis |-> Max(basis_i, 0),
              current_year_depreciation |-> 0,
              cumulative_depreciation |-> 0,
              net_book_value |-> basis_i,
              year_by_year |-> <<>>]
        ELSE LET bo == bonus_of(basis_i, in_service_date, asset_kind)
                 max_years == max_years_of(asset_kind, is_residential_building)
                 fin == LookbackLoop(in_service_date.year, study_year,
                            asset_kind, is_residential_building,
                            in_service_date.month, bo.depreciable_basis,
                            max_years,
                            [year_index |-> 1,
                             cumulative |-> initial_cumulative(bo.bonus_amount),
                             current_year_dep |-> 0, rows |-> <<>>])
             IN  [original_basis |-> basis_i,
                  bonus_rate |-> bo.bonus_rate,
                  bonus_amount |-> bo.bonus_amount,
                  depreciable_basis |-> bo.depreciable_basis,
                  current_year_depreciation |-> fin.current_year_dep,
                  cumulative_depreciation |-> fin.cumulative,
                  net_book_value |-> excel_round(basis_i - fin.cumulative, 1),
                  year_by_year |-> fin.rows]

(* First-year folding of compute_full_schedule for 5/7/15 assets *)
full_amount_unfolded(year_index, bonus_amount, macrs_amt) == macrs_amt

full_amount(year_index, bonus_amount, macrs_amt) ==
    IF year_index = 1 THEN bonus_amount + macrs_amt ELSE macrs_amt

(* compute_full_schedule: {calendar_year -> amount}, a function on the      *)
(* calendar years of the whole recovery life (empty function = {}).         *)
compute_full_schedule(basis, in_service_date, asset_kind, is_residential_building) ==
    LET basis_i == excel_round(basis, BasisDen)
        start_year == in_service_date.year
        in_month == in_service_date.month
        max_years == max_years_of(asset_kind, is_residential_building)
    IN  IF basis_i <= 0 THEN <<>>
        ELSE IF asset_kind = "building"
        THEN [cal_year \in start_year..(start_year + max_years - 1) |->
                 excel_round(basis_i * building_rate(cal_year - start_year + 1,
                                 in_month, is_residential_building), RateDen)]
        ELSE IF max_years <= 0 THEN <<>>
        ELSE LET bonus_rate == get_bonus_rate(in_service_date)
                 bonus_amount == excel_round(basis_i * bonus_rate, BonusDen)
                 depreciable_basis == basis_i - bonus_amount
             IN  [cal_year \in start_year..(start_year + max_years - 1) |->
                     LET year_index == cal_year - start_year + 1
                         macrs_amt == excel_round(depreciable_basis *
                                          macrs_rate(asset_kind, year_index), RateDen)
                     IN  full_amount(year_index, bonus_amount, macrs_amt)]

---------------------------------------------------------------------------
(* Requests to the generator *)

AssetKinds == {"building", "5", "7", "15"}

BasisValues == (MinBasisHalves..MaxBasisHalves) \cup BigBases

LookbackInputs ==
    { [basis |-> b, in_service_date |-> Date(y, m, 1), study_year |-> sy,
       asset_kind |-> k, is_residential_building |-> r] :
        b \in BasisValues, y \in InServiceYears, m \in 1..12,
        sy \in (FirstYear - 1)..(FirstYear + StudySpan),
        k \in AssetKinds, r \in BOOLEAN }

DefaultLookbackInput ==
    [basis |-> 0, in_service_date |-> Date(FirstYear, 1, 1),
     study_year |-> FirstYear, asset_kind |-> "building",
     is_residential_building |-> FALSE]

ComputeLookback ==
    /\ lb = <<>>
    /\ lb' = <<compute_lookback(inp.basis, inp.in_service_date, inp.study_year,
                   inp.asset_kind, inp.is_residential_building)>>
    /\ UNCHANGED <<inp, fs, bdate, brate, cin, cout, mq, mres, rin, rout,
                 rep, clock, first, second, rateq, rateres, seen, now, hook, lastcall,
                 xin, xout>>

ComputeFullSchedule ==
    /\ fs = <<>>
    /\ fs' = <<compute_full_schedule(inp.basis, inp.in_service_date,
                   inp.asset_kind, inp.is_residential_building)>>
    /\ UNCHANGED <<inp, lb, bdate, brate, cin, cout, mq, mres, rin, rout,
                 rep, clock, first, second, rateq, rateres, seen, now, hook, lastcall,
                 xin, xout>>

Init ==
    /\ inp \in LookbackInputs
    /\ lb = <<>>
    /\ fs = <<>>
    /\ bdate = Date(FirstYear, 1, 1)
    /\ brate = <<>>
    /\ cin = <<>>
    /\ cout = <<>>
    /\ mq = <<>>
    /\ mres = <<>>
    /\ rin = <<>>
    /\ rout = <<>>
    /\ rep = <<>>
    /\ clock = 0
    /\ first = <<>>
    /\ second = <<>>
    /\ rateq = <<>>
    /\ rateres = <<>>
    /\ seen = <<>>
    /\ now = 0
    /\ hook = <<>>
    /\ lastcall = <<>>
    /\ xin = 0
    /\ xout = <<>>

Next == ComputeLookback \/ ComputeFullSchedule

Spec == Init /\ [][Next]_vars

---------------------------------------------------------------------------
(* Bonus-rate lookup on its own *)

BonusDates ==
    { Date(y, m, d) : y \in FirstBonusYear..LastBonusYear, m \in 1..12,
                      d \in BonusDays }

GetBonusRate ==
    /\ brate = <<>>
    /\ brate' = <<get_bonus_rate(bdate)>>
    /\ UNCHANGED <<inp, lb, fs, bdate, cin, cout, mq, mres, rin, rout,
                 rep, clock, first, second, rateq, rateres, seen, now, hook, lastcall,
                 xin, xout>>

InitBonus ==
    /\ bdate \in BonusDates
    /\ brate = <<>>
    /\ inp = DefaultLookbackInput
    /\ lb = <<>>
    /\ fs = <<>>
    /\ cin = <<>>
    /\ cout = <<>>
    /\ mq = <<>>
    /\ mres = <<>>
    /\ rin = <<>>
    /\ rout = <<>>
    /\ rep = <<>>
    /\ clock = 0
    /\ first = <<>>
    /\ second = <<>>
    /\ rateq = <<>>
    /\ rateres = <<>>
    /\ seen = <<>>
    /\ now = 0
    /\ hook = <<>>
    /\ lastcall = <<>>
    /\ xin = 0
    /\ xout = <<>>

NextBonus == GetBonusRate

SpecBonus == InitBonus /\ [][NextBonus]_vars

---------------------------------------------------------------------------
(* Commercial allocator.  Strings are sequences of one-character strings.  *)
(* The guideline table is [has_ptype_col, rows]; a row holds its property  *)
(* type and the raw values of the columns 39-yr, 15-yr, 7-yr, 5-yr as      *)
(* numerators over FracDen.  An optional input is                          *)
(* [tag |-> "none" | "bad" | "ok", value |-> v].                           *)

LowerChar(c) ==
    CASE c = "B" -> "b"
      [] c = "A" -> "a"
      [] c = "N" -> "n"
      [] c = "K" -> "k"
      [] OTHER -> c

lower(str) == [i \in 1..Len(str) |-> LowerChar(str[i])]

RECURSIVE strip(_)
strip(str) ==
    IF str = <<>> THEN str
    ELSE IF Head(str) = " " THEN strip(Tail(str))
    ELSE IF str[Len(str)] = " " THEN strip(SubSeq(str, 1, Len(str) - 1))
    ELSE str

(* Series.str.contains(q): q is searched as a regular expression.  Of the  *)
(* metacharacters the model knows "." (any one character) and "(", which  *)
(* alone makes the pattern invalid.                                        *)
contains(hay, q) ==
    \E i \in 0..(Len(hay) - Len(q)) :
        \A j \in 1..Len(q) : q[j] = "." \/ q[j] = hay[i + j]

invalid_pattern(q) == \E j \in 1..Len(q) : q[j] = "("

(* `.iloc[0]` of a filtered frame: the least of the selected row indices, *)
(* 0 when none is selected.                                               *)
first_row(hits) ==
    IF hits = {} THEN 0 ELSE CHOOSE i \in hits : \A j \in hits : i <= j

(* _match_row: [raised, row (index, 0 = None), failed] *)
match_row(df, prop_type) ==
    IF ~df.has_ptype_col
    THEN [raised |-> TRUE, row |-> 0, failed |-> TRUE,
          error |-> "ValueError: Guideline file missing Property Type column."]
    ELSE LET q == lower(strip(prop_type))
             idx == 1..Len(df.rows)
             exact == first_row({i \in idx : lower(df.rows[i].ptype) = q})
             cont == first_row({i \in idx : contains(lower(df.rows[i].ptype), q)})
         IN  IF q = <<>> THEN [raised |-> FALSE, row |-> 0, failed |-> TRUE]
             ELSE IF exact # 0 THEN [raised |-> FALSE, row |-> exact, failed |-> FALSE]
             ELSE IF invalid_pattern(q)
                  THEN [raised |-> TRUE, row |-> 0, failed |-> TRUE,
                        error |-> "re.error"]
             ELSE IF cont # 0 THEN [raised |-> FALSE, row |-> cont, failed |-> FALSE]
             ELSE [raised |-> FALSE, row |-> 0, failed |-> TRUE]

(* parse_date on the tagged input: a parseable value is its date *)
(* float(B.get(k)) for each cell k of `cells`: raises ValueError when a     *)
(* cell holds a string that is no number.  A request lists the numeric     *)
(* cells that hold such a string in its field `text`.                      *)
float_raises(B, cells) == \E k \in cells : k \in B.text

parse_date(val) == IF val.tag = "ok" THEN <<val.value>> ELSE <<>>

(* study_year = int(float(str(B34))) or None *)
parse_study_year(val) == IF val.tag = "ok" THEN <<val.value>> ELSE <<>>

(* Amounts (Excel rounding) + residual adjustment; basis in half dollars,  *)
(* fractions over FracDen.                                                 *)
commercial_amounts_spread(basis, p39, p15, p7, p5) ==
    LET A5 == excel_round(basis * p5, BasisDen * FracDen)
        A7 == excel_round(basis * p7, BasisDen * FracDen)
        A15 == excel_round(basis * p15, BasisDen * FracDen)
        A39 == excel_round(basis * p39, BasisDen * FracDen)
        sum_total == A5 + A7 + A15 + A39
        diff == excel_round(basis - sum_total * BasisDen, BasisDen)
    IN  [A39 |-> A39, A15 |-> A15 + diff, A7 |-> A7, A5 |-> A5]

commercial_amounts(basis, p39, p15, p7, p5) ==
    LET A5 == excel_round(basis * p5, BasisDen * FracDen)
        A7 == excel_round(basis * p7, BasisDen * FracDen)
        A15 == excel_round(basis * p15, BasisDen * FracDen)
        A39 == excel_round(basis * p39, BasisDen * FracDen)
        sum_total == A5 + A7 + A15 + A39
        diff == excel_round(basis - sum_total * BasisDen, BasisDen)
    IN  [A39 |-> IF diff # 0 THEN A39 + diff ELSE A39,
         A15 |-> A15, A7 |-> A7, A5 |-> A5]

(* A share A / basis as the fraction <<numerator, denominator>>; 0 = <<0, 1>> *)
share(A, basis) == IF basis > 0 THEN <<A * BasisDen, basis>> ELSE <<0, 1>>

(* lb = None when the lookback is inactive *)
NoLookback_empty ==
    <<compute_lookback(0, Date(FirstYear, 1, 1), FirstYear, "building", FALSE)>>

NoLookback == <<>>

(* add_series / with_css / without_css of commercial_to_estimator_payload: *)
(* year -> (bucket key -> amount), keys only where a row exists.           *)
yearly_of_zero_filled(series) ==
    LET keys == {"long", "15yr", "7yr", "5yr"}
        rows_of(k) == IF series[k] = <<>> THEN <<>> ELSE series[k][1].year_by_year
        years == UNION { {rows_of(k)[i].calendar_year : i \in 1..Len(rows_of(k))} :
                         k \in keys }
        has(k, y) == \E i \in 1..Len(rows_of(k)) : rows_of(k)[i].calendar_year = y
        val(k, y) == LET i == CHOOSE j \in 1..Len(rows_of(k)) :
                                  /\ rows_of(k)[j].calendar_year = y
                                  /\ \A l \in (j + 1)..Len(rows_of(k)) :
                                        rows_of(k)[l].calendar_year # y
                     IN  rows_of(k)[i].depreciation
        opt(k, y) == IF has(k, y) THEN val(k, y) ELSE 0
    IN  [y \in years |->
            [k \in keys \cup {"with_css", "without_css"} |->
                IF k = "with_css"
                THEN <<opt("5yr", y) + opt("7yr", y) + opt("15yr", y) + opt("long", y)>>
                ELSE IF k = "without_css"
                THEN <<opt("long", y)>>
                ELSE <<opt(k, y)>>]]

yearly_of(series) ==
    LET keys == {"long", "15yr", "7yr", "5yr"}
        rows_of(k) == IF series[k] = <<>> THEN <<>> ELSE series[k][1].year_by_year
        years == UNION { {rows_of(k)[i].calendar_year : i \in 1..Len(rows_of(k))} :
                         k \in keys }
        has(k, y) == \E i \in 1..Len(rows_of(k)) : rows_of(k)[i].calendar_year = y
        val(k, y) == LET i == CHOOSE j \in 1..Len(rows_of(k)) :
                                  /\ rows_of(k)[j].calendar_year = y
                                  /\ \A l \in (j + 1)..Len(rows_of(k)) :
                                        rows_of(k)[l].calendar_year # y
                     IN  rows_of(k)[i].depreciation
        opt(k, y) == IF has(k, y) THEN val(k, y) ELSE 0
    IN  [y \in years |->
            [k \in {kk \in keys : has(kk, y)} \cup {"with_css", "without_css"} |->
                IF k = "with_css"
                THEN <<opt("5yr", y) + opt("7yr", y) + opt("15yr", y) + opt("long", y)>>
                ELSE IF k = "without_css"
                THEN (IF has("long", y) THEN <<val("long", y)>> ELSE <<>>)
                ELSE <<val(k, y)>>]]

commercial_to_estimator_payload(res) ==
    [summary |->
        [building_basis |-> res.A39,
         improvements_included |-> res.A15 + res.A7 + res.A5,
         basis_for_cost_segregation |-> res.A39 + res.A15 + res.A7 + res.A5,
         total_accelerated |-> res.total_current_year_depr,
         estimated_additional_depr |-> res.prior_years_depr],
     yearly |-> yearly_of([k \in {"long", "15yr", "7yr", "5yr"} |->
                    CASE k = "long" -> res.lb_39
                      [] k = "15yr" -> res.lb_15
                      [] k = "7yr" -> res.lb_7
                      [] k = "5yr" -> res.lb_5])]

(* The CommercialResult returned as it is when the lookup fails *)
lookup_failed_result_active(B) ==
    [inputs |-> B, lookup_failed |-> TRUE, matched_property_type |-> <<>>,
     p39 |-> 0, p15 |-> 0, p7 |-> 0, p5 |-> 0, p_accel |-> 0,
     A39 |-> excel_round(Max(B.B1, 0), BasisDen), A15 |-> 0, A7 |-> 0, A5 |-> 0,
     s39 |-> <<0, 1>>, s15 |-> <<0, 1>>, s7 |-> <<0, 1>>, s5 |-> <<0, 1>>,
     s_accel |-> <<0, 1>>,
     lookback_active |-> parse_date(B.B32) # <<>> /\ parse_study_year(B.B34) # <<>>,
     in_service_date |-> parse_date(B.B32),
     study_year |-> parse_study_year(B.B34), years_in_service |-> 0,
     lb_39 |-> NoLookback, lb_15 |-> NoLookback,
     lb_7 |-> NoLookback, lb_5 |-> NoLookback,
     total_current_year_depr |-> 0,
     total_cumulative_depr |-> 0, prior_years_depr |-> 0]

lookup_failed_result(B) ==
    [inputs |-> B, lookup_failed |-> TRUE, matched_property_type |-> <<>>,
     p39 |-> 0, p15 |-> 0, p7 |-> 0, p5 |-> 0, p_accel |-> 0,
     A39 |-> 0, A15 |-> 0, A7 |-> 0, A5 |-> 0,
     s39 |-> <<0, 1>>, s15 |-> <<0, 1>>, s7 |-> <<0, 1>>, s5 |-> <<0, 1>>,
     s_accel |-> <<0, 1>>,
     lookback_active |-> FALSE, in_service_date |-> <<>>,
     study_year |-> <<>>, years_in_service |-> 0,
     lb_39 |-> NoLookback, lb_15 |-> NoLookback,
     lb_7 |-> NoLookback, lb_5 |-> NoLookback,
     total_current_year_depr |-> 0,
     total_cumulative_depr |-> 0, prior_years_depr |-> 0]

(* lookback_active of compute_commercial *)
commercial_lookback_active_either(in_service, study_year) ==
    in_service # <<>> \/ study_year # <<>>

commercial_lookback_active(in_service, study_year) ==
    in_service # <<>> /\ study_year # <<>>

(* years_in_service = max(0, study_year - in_service.year + 1) *)
years_in_service_of(in_service, study_year) ==
    Max(0, study_year - in_service.year + 1)

(* prior = total_cum - total_cur if years_in_service > 1 else 0 *)
prior_years_always(years_in_service, total_cum, total_cur) ==
    total_cum - total_cur

prior_years(years_in_service, total_cum, total_cur) ==
    IF years_in_service > 1 THEN total_cum - total_cur ELSE 0

(* compute_commercial(inputs, guidelines_df, today):                       *)
(* [raised, res (CommercialResult), payload (the returned projection)];    *)
(* a failed lookup returns the CommercialResult alone.                     *)
compute_commercial(B, df, today) ==
    LET basis == Max(B.B1, 0)
        prop_type == strip(B.B2)
        m == match_row(df, prop_type)
    IN  IF float_raises(B, {"B1"})
        THEN [raised |-> TRUE, error |-> "ValueError: could not convert string to float"]
        ELSE IF m.raised THEN [raised |-> TRUE, error |-> m.error]
        ELSE IF m.failed \/ m.row = 0
        THEN [raised |-> FALSE, res |-> lookup_failed_result(B)]
        ELSE LET row == df.rows[m.row]
                 p39 == clamp01(row.f39)
                 p15 == clamp01(row.f15)
                 p7 == clamp01(row.f7)
                 p5 == clamp01(row.f5)
                 p_accel == clamp01(p5 + p7 + p15)
                 A == commercial_amounts(basis, p39, p15, p7, p5)
                 in_service0 == parse_date(B.B32)
                 study_year0 == parse_study_year(B.B34)
                 lookback_active == commercial_lookback_active(in_service0, study_year0)
                 in_service == IF lookback_active /\ in_service0 = <<>>
                                  /\ study_year0 # <<>>
                               THEN <<Date(study_year0[1], 1, 1)>>
                               ELSE in_service0
                 study_year == IF lookback_active /\ study_year0 = <<>>
                                  /\ in_service0 # <<>>
                               THEN <<today>> ELSE study_year0
                 lbk(amount, kind) ==
                     IF lookback_active
                     THEN <<compute_lookback(amount * BasisDen, in_service[1],
                                study_year[1], kind, FALSE)>>
                     ELSE NoLookback
                 lb39 == lbk(A.A39, "building")
                 lb15 == lbk(A.A15, "15")
                 lb7 == lbk(A.A7, "7")
                 lb5 == lbk(A.A5, "5")
                 years_in_service ==
                     IF lookback_active
                     THEN years_in_service_of(in_service[1], study_year[1]) ELSE 0
                 total_cur ==
                     IF lookback_active
                     THEN lb39[1].current_year_depreciation
                          + lb15[1].current_year_depreciation
                          + lb7[1].current_year_depreciation
                          + lb5[1].current_year_depreciation
                     ELSE 0
                 total_cum ==
                     IF lookback_active
                     THEN lb39[1].cumulative_depreciation
                          + lb15[1].cumulative_depreciation
                          + lb7[1].cumulative_depreciation
                          + lb5[1].cumulative_depreciation
                     ELSE 0
                 prior == IF lookback_active
                          THEN prior_years(years_in_service, total_cum, total_cur)
                          ELSE 0
                 res ==
                    [inputs |-> B, lookup_failed |-> FALSE,
                     matched_property_type |-> row.ptype,
                     p39 |-> p39, p15 |-> p15, p7 |-> p7, p5 |-> p5,
                     p_accel |-> p_accel,
                     A39 |-> A.A39, A15 |-> A.A15, A7 |-> A.A7, A5 |-> A.A5,
                     s39 |-> share(A.A39, basis), s15 |-> share(A.A15, basis),
                     s7 |-> share(A.A7, basis), s5 |-> share(A.A5, basis),
                     s_accel |-> share(A.A5 + A.A7 + A.A15, basis),
                     lookback_active |-> lookback_active,
                     in_service_date |-> in_service,
                     study_year |-> study_year,
                     years_in_service |-> years_in_service,
                     lb_39 |-> lb39, lb_15 |-> lb15, lb_7 |-> lb7, lb_5 |-> lb5,
                     total_current_year_depr |-> total_cur,
                     total_cumulative_depr |-> total_cum,
                     prior_years_depr |-> prior]
             IN  [raised |-> FALSE, res |-> res,
                  payload |-> commercial_to_estimator_payload(res)]

(* Requests to the commercial allocator *)
BANK == <<"B", "a", "n", "k">>
OFFICE == <<"o", "f", "f">>

RawFractions == (0 - 1)..(FracDen + 1)

Guidelines(has_col, f39, f15, f7, f5) ==
    [has_ptype_col |-> has_col,
     rows |-> << [ptype |-> OFFICE, f39 |-> FracDen, f15 |-> 0, f7 |-> 0, f5 |-> 0],
                 [ptype |-> BANK, f39 |-> f39, f15 |-> f15, f7 |-> f7, f5 |-> f5] >>]

Absent == [tag |-> "none", value |-> 0]

(* A value that is present and does not parse ("n/a") *)
Unparseable == [tag |-> "bad", value |-> 0]

ComBasisValues == ((0 - 1)..MaxComBasisHalves) \cup {4001}

OptionalDates == { Absent, [tag |-> "ok", value |-> Date(FirstYear, 6, 1)] }

OptionalYears == { Absent, [tag |-> "ok", value |-> FirstYear + 2] }

(* Every guideline fraction set, for a property type that matches *)
MatchedInputs ==
    { [B1 |-> b, B2 |-> <<"b", "a", "n", "k">>, B32 |-> d, B34 |-> sy, text |-> {},
       table |-> Guidelines(TRUE, f39, f15, f7, f5), today |-> FirstYear + 5] :
        b \in ComBasisValues, d \in OptionalDates, sy \in OptionalYears,
        f39 \in RawFractions, f15 \in RawFractions,
        f7 \in RawFractions, f5 \in RawFractions }

(* Other property types and tables, for one guideline fraction set *)
OtherInputs ==
    { [B1 |-> b, B2 |-> q, B32 |-> d, B34 |-> sy, text |-> {},
       table |-> Guidelines(col, 2, 1, 0, 1), today |-> FirstYear + 5] :
        b \in ComBasisValues, d \in OptionalDates \cup {Unparseable},
        sy \in OptionalYears \cup {Unparseable}, col \in BOOLEAN,
        q \in { <<"z">>, <<>>, <<" ">>, <<"a", "n">>, <<"f">>,
                <<" ", "B", "A", "N", "K", " ">> } }

CommercialInputs == MatchedInputs \cup OtherInputs

ComputeCommercial ==
    /\ cout = <<>>
    /\ cout' = <<compute_commercial(cin, cin.table, cin.today)>>
    /\ UNCHANGED <<inp, lb, fs, bdate, brate, cin, mq, mres, rin, rout,
                 rep, clock, first, second, rateq, rateres, seen, now, hook, lastcall,
                 xin, xout>>

InitCommercial ==
    /\ cin \in CommercialInputs
    /\ cout = <<>>
    /\ inp = DefaultLookbackInput
    /\ lb = <<>>
    /\ fs = <<>>
    /\ bdate = Date(FirstYear, 1, 1)
    /\ brate = <<>>
    /\ mq = <<>>
    /\ mres = <<>>
    /\ rin = <<>>
    /\ rout = <<>>
    /\ rep = <<>>
    /\ clock = 0
    /\ first = <<>>
    /\ second = <<>>
    /\ rateq = <<>>
    /\ rateres = <<>>
    /\ seen = <<>>
    /\ now = 0
    /\ hook = <<>>
    /\ lastcall = <<>>
    /\ xin = 0
    /\ xout = <<>>

NextCommercial == ComputeCommercial

SpecCommercial == InitCommercial /\ [][NextCommercial]_vars

---------------------------------------------------------------------------
(* Property-type match on its own: tables of up to MaxRows rows *)

MaxRows == 3

PTypes ==
    { BANK, OFFICE, <<"B", "a", "n", "k", " ", "o">>, <<" ", "B", "a", "n", "k">>,
      <<"a", ".", "k">>, <<"(", "a">> }

Queries ==
    { <<"b", "a", "n", "k">>, <<"B", "A", "N", "K">>, <<" ", "B", "a", "n", "k", " ">>,
      <<"a", "n">>, <<"b", ".", "n", "k">>, <<"a", ".", "k">>, <<"z">>, <<>>,
      <<" ">>, <<"(", "a">>, <<"(">>, <<"o", "f", "f">>, <<"k", " ", "o">> }

MatchTables ==
    UNION { [1..n -> {[ptype |-> p] : p \in PTypes}] : n \in 1..MaxRows }

MatchRow ==
    /\ mres = <<>>
    /\ mres' = <<match_row(mq.df, mq.prop_type)>>
    /\ UNCHANGED <<inp, lb, fs, bdate, brate, cin, cout, mq, rin, rout,
                 rep, clock, first, second, rateq, rateres, seen, now, hook, lastcall,
                 xin, xout>>

InitMatch ==
    /\ mq \in { [df |-> [has_ptype_col |-> c, rows |-> t], prop_type |-> q] :
                    c \in BOOLEAN, t \in MatchTables, q \in Queries }
    /\ mres = <<>>
    /\ inp = DefaultLookbackInput
    /\ lb = <<>>
    /\ fs = <<>>
    /\ bdate = Date(FirstYear, 1, 1)
    /\ brate = <<>>
    /\ cin = <<>>
    /\ cout = <<>>
    /\ rin = <<>>
    /\ rout = <<>>
    /\ rep = <<>>
    /\ clock = 0
    /\ first = <<>>
    /\ second = <<>>
    /\ rateq = <<>>
    /\ rateres = <<>>
    /\ seen = <<>>
    /\ now = 0
    /\ hook = <<>>
    /\ lastcall = <<>>
    /\ xin = 0
    /\ xout = <<>>

NextMatch == MatchRow

SpecMatch == InitMatch /\ [][NextMatch]_vars

---------------------------------------------------------------------------
(* Residential allocator.  The interior area B1 and the counts B3, B4, B5, *)
(* B10 are numerators over UnitDen, B6..B9 over SiteDen, the site acres B2 *)
(* over AcreDen, the basis B12 over BasisDen; $/SF B28 is an integer.      *)

SiteDen == 10
AcreDen == 100
UnitDen == 2

UpperChar(c) ==
    CASE c = "s" -> "S"
      [] c = "f" -> "F"
      [] c = "r" -> "R"
      [] c = "m" -> "M"
      [] c = "x" -> "X"
      [] OTHER -> c

upper(str) == [i \in 1..Len(str) |-> UpperChar(str[i])]

SFR1 == <<"S", "F", "R", "$">>
SFR2 == <<"S", "F", "R", "$", "$">>
SFR3 == <<"S", "F", "R", "$", "$", "$">>

TIER_RATES ==
    [t \in {SFR1, SFR2, SFR3} |->
        CASE t = SFR1 -> [rate17 |-> 21638, rate18 |-> 257, rate19 |-> 283,
                          rate20 |-> 4, rate21 |-> 15300]
          [] t = SFR2 -> [rate17 |-> 28565, rate18 |-> 257, rate19 |-> 283,
                          rate20 |-> 11, rate21 |-> 15300]
          [] t = SFR3 -> [rate17 |-> 32691, rate18 |-> 257, rate19 |-> 283,
                          rate20 |-> 11, rate21 |-> 15300]]

MFR_TIERS ==
    { <<"M", "F", "R", "$">>, <<"M", "F", "R", "$", "$">>,
      <<"M", "F", "R", "$", "$", "$">> }

(* _apply_tier_logic: the effective B31 and B28, tier_display, building_type *)
apply_tier_logic_keep_rate(B31, B28) ==
    LET raw == upper(strip(B31))
    IN  IF raw \in MFR_TIERS
        THEN [B31 |-> <<"S", "F", "R">> \o SubSeq(raw, 4, Len(raw)), B28 |-> B28,
              tier_display |-> raw, building_type |-> "MFR"]
        ELSE IF raw \notin DOMAIN TIER_RATES
        THEN [B31 |-> SFR1, B28 |-> B28, tier_display |-> SFR1,
              building_type |-> "SFR"]
        ELSE [B31 |-> raw, B28 |-> B28, tier_display |-> raw,
              building_type |-> "SFR"]

apply_tier_logic(B31, B28) ==
    LET raw == upper(strip(B31))
    IN  IF raw \in MFR_TIERS
        THEN [B31 |-> <<"S", "F", "R">> \o SubSeq(raw, 4, Len(raw)), B28 |-> 200,
              tier_display |-> raw, building_type |-> "MFR"]
        ELSE IF raw \notin DOMAIN TIER_RATES
        THEN [B31 |-> SFR1, B28 |-> B28, tier_display |-> SFR1,
              building_type |-> "SFR"]
        ELSE [B31 |-> raw, B28 |-> B28, tier_display |-> raw,
              building_type |-> "SFR"]

(* clamp01 on a fraction numerator over SiteDen *)
clamp01_site(x) == Max(0, Min(SiteDen, x))

(* clamp01(B.get(k)): a cell that float() cannot convert counts as 0.0 *)
clamp01_cell(B, k) == IF k \in B.text THEN 0 ELSE clamp01_site(B[k])

(* The cells compute_residential converts with a bare float() *)
ResidentialFloatCells == {"B1", "B2", "B3", "B4", "B5", "B10", "B12", "B28"}

(* Site fractions with the 70% cap, each as <<numerator, denominator>>:    *)
(* s <= 0.70 leaves them alone, else each is B * (0.70 / s).               *)
site_fractions_uncapped(B7, B8, B9) ==
    [p7 |-> <<B7, SiteDen>>, p8 |-> <<B8, SiteDen>>, p9 |-> <<B9, SiteDen>>]

site_fractions(B7, B8, B9) ==
    LET s == B7 + B8 + B9
    IN  IF 10 * s <= 7 * SiteDen
        THEN [p7 |-> <<B7, SiteDen>>, p8 |-> <<B8, SiteDen>>, p9 |-> <<B9, SiteDen>>]
        ELSE [p7 |-> <<7 * B7, 10 * s>>, p8 |-> <<7 * B8, 10 * s>>,
              p9 |-> <<7 * B9, 10 * s>>]

(* C13 = B13 / B16 if B16 > 0 else 0.0, as <<numerator, denominator>> *)
residential_share_nonzero(bucket, B16) ==
    IF B16 # 0 THEN <<bucket, B16>> ELSE <<0, 1>>

residential_share(bucket, B16) ==
    IF B16 > 0 THEN <<bucket, B16>> ELSE <<0, 1>>

(* lookback_active of compute_residential *)
residential_lookback_active_both(in_service, study_year) ==
    in_service # <<>> /\ study_year # <<>>

residential_lookback_active(in_service, study_year) ==
    in_service # <<>> \/ study_year # <<>>

residential_to_estimator_payload(res) ==
    [summary |->
        [building_basis |-> res.B14,
         improvements_included |-> res.B15,
         basis_for_cost_segregation |-> res.B16,
         total_accelerated |-> res.total_current_year_depr,
         estimated_additional_depr |-> res.prior_years_depr],
     yearly |-> yearly_of([k \in {"long", "15yr", "7yr", "5yr"} |->
                    CASE k = "long" -> res.lookback_building
                      [] k = "15yr" -> res.lookback_15
                      [] k = "7yr" -> <<>>
                      [] k = "5yr" -> res.lookback_5])]

(* Section 5: the modeled building dollars, D30 = D28 + D29 *)
building_dollars_clamped(D28, D29) == IF D28 + D29 < 0 THEN 0 ELSE D28 + D29

building_dollars(D28, D29) == D28 + D29

(* compute_residential(inputs, today):                                     *)
(* [raised, res (ResidentialResult), payload (the returned projection)]    *)
compute_residential(B0, today) ==
    LET T == apply_tier_logic(B0.B31, B0.B28)
        B1 == B0.B1
        B2 == B0.B2
        B6 == clamp01_cell(B0, "B6")
        B7 == clamp01_cell(B0, "B7")
        B8 == clamp01_cell(B0, "B8")
        B9 == clamp01_cell(B0, "B9")
        B12 == B0.B12
        B28 == T.B28
        C6_internal == excel_round(B1 * B6, UnitDen * SiteDen)
        p == site_fractions(B7, B8, B9)
        area_sf == excel_round(B2 * 43560, AcreDen)
        landscape_sf == excel_round(p.p7[1] * area_sf, p.p7[2])
        hardscape_sf == excel_round(p.p8[1] * area_sf, p.p8[2])
        parking_sf == excel_round(p.p9[1] * area_sf, p.p9[2])
        landscape_ac == excel_round(p.p7[1] * B2, p.p7[2])
        hardscape_ac == excel_round(p.p8[1] * B2, p.p8[2])
        parking_ac == excel_round(p.p9[1] * B2, p.p9[2])
        rates == TIER_RATES[T.B31]
        D17 == excel_round(rates.rate17 * B0.B5, UnitDen)
        D18 == excel_round(rates.rate18 * B0.B3, UnitDen)
        D19 == excel_round(rates.rate19 * B0.B4, UnitDen)
        D20 == rates.rate20 * C6_internal
        D21 == excel_round(rates.rate21 * B0.B10, UnitDen)
        D22 == D17 + D18 + D19 + D20 + D21
        D23 == 0
        D24 == excel_round(2786 * landscape_sf, 1000)
        D25 == 8 * hardscape_sf
        D26 == excel_round(787 * parking_sf, 100)
        D27 == D24 + D25 + D26
        D28 == excel_round(B28 * B1, UnitDen)
        D29 == 0 - D22
        D30 == building_dollars(D28, D29)
        B13 == D30
        B14 == D22
        B15 == D27
        B16 == B13 + B14 + B15
        C13 == residential_share(B13, B16)
        C14 == residential_share(B14, B16)
        C15 == residential_share(B15, B16)
        C16 == residential_share(B14 + B15, B16)
        pct(C) == excel_round(C[1] * 10000, C[2])
        alloc(C) == excel_round(C[1] * B12, C[2] * BasisDen)
        D13 == alloc(C13)
        D14 == alloc(C14)
        D15 == alloc(C15)
        D16 == D14 + D15
        in_service0 == parse_date(B0.B32)
        study_year0 == parse_study_year(B0.B34)
        lookback_active == residential_lookback_active(in_service0, study_year0)
        in_service == IF lookback_active /\ in_service0 = <<>>
                         /\ study_year0 # <<>>
                      THEN <<Date(study_year0[1], 1, 1)>>
                      ELSE in_service0
        study_year == IF lookback_active /\ study_year0 = <<>>
                         /\ in_service0 # <<>>
                      THEN <<today>> ELSE study_year0
        lbk(amount, kind) ==
            IF lookback_active
            THEN <<compute_lookback(amount * BasisDen, in_service[1],
                       study_year[1], kind, TRUE)>>
            ELSE NoLookback
        lb_building == lbk(D13, "building")
        lb_5 == lbk(D14, "5")
        lb_15 == lbk(D15, "15")
        years_in_service ==
            IF lookback_active
            THEN years_in_service_of(in_service[1], study_year[1]) ELSE 0
        total_cur ==
            IF lookback_active
            THEN lb_building[1].current_year_depreciation
                 + lb_5[1].current_year_depreciation
                 + lb_15[1].current_year_depreciation
            ELSE 0
        total_cum ==
            IF lookback_active
            THEN lb_building[1].cumulative_depreciation
                 + lb_5[1].cumulative_depreciation
                 + lb_15[1].cumulative_depreciation
            ELSE 0
        prior == IF lookback_active
                 THEN prior_years(years_in_service, total_cum, total_cur)
                 ELSE 0
        res ==
            [inputs |-> [B0 EXCEPT !.B31 = T.B31, !.B28 = T.B28],
             tier_display |-> T.tier_display,
             building_type |-> T.building_type,
             C6_internal |-> C6_internal, area_sf |-> area_sf,
             landscape_ac |-> landscape_ac, hardscape_ac |-> hardscape_ac,
             parking_ac |-> parking_ac,
             landscape_sf |-> landscape_sf, hardscape_sf |-> hardscape_sf,
             parking_sf |-> parking_sf,
             D17 |-> D17, D18 |-> D18, D19 |-> D19, D20 |-> D20, D21 |-> D21,
             D22 |-> D22, D23 |-> D23, D24 |-> D24, D25 |-> D25, D26 |-> D26,
             D27 |-> D27, D28 |-> D28, D29 |-> D29, D30 |-> D30,
             B13 |-> B13, B14 |-> B14, B15 |-> B15, B16 |-> B16,
             C13_pct |-> pct(C13), C14_pct |-> pct(C14),
             C15_pct |-> pct(C15), C16_pct |-> pct(C16),
             D13 |-> D13, D14 |-> D14, D15 |-> D15, D16 |-> D16,
             lookback_active |-> lookback_active,
             in_service_date |-> in_service,
             study_year |-> study_year,
             years_in_service |-> years_in_service,
             lookback_building |-> lb_building,
             lookback_5 |-> lb_5, lookback_15 |-> lb_15,
             total_current_year_depr |-> total_cur,
             total_cumulative_depr |-> total_cum,
             prior_years_depr |-> prior]
    IN  IF float_raises(B0, ResidentialFloatCells)
        THEN [raised |-> TRUE, error |-> "ValueError: could not convert string to float"]
        ELSE [raised |-> FALSE, res |-> res,
              payload |-> residential_to_estimator_payload(res)]

(* Requests to the residential allocator *)
MaxResBasisHalves == 7
MaxTierPad == 1

DefaultResidential ==
    [B1 |-> 200 * UnitDen, B2 |-> 22, B3 |-> 3 * UnitDen, B4 |-> 2 * UnitDen,
     B5 |-> UnitDen, B6 |-> SiteDen, B7 |-> 6, B8 |-> 1, B9 |-> 0, B10 |-> 0,
     B12 |-> 3000 * BasisDen, B28 |-> 130, B31 |-> SFR1,
     B32 |-> Absent, B34 |-> Absent, text |-> {}, today |-> FirstYear + 5]

ResBasisValues == ((0 - 1)..MaxResBasisHalves) \cup {2001, 10000}

ResDates ==
    { Absent, Unparseable, [tag |-> "ok", value |-> Date(FirstYear, 1, 1)],
      [tag |-> "ok", value |-> Date(FirstYear + 3, 6, 1)] }

ResYears ==
    { Absent, Unparseable, [tag |-> "ok", value |-> FirstYear + 4],
      [tag |-> "ok", value |-> FirstYear - 1] }

(* num / den lies exactly halfway between two integers *)
is_half(num, den) == (2 * num) % den = 0 /\ ((2 * num) \div den) % 2 = 1

(* A site product (square feet or acres) that is an exact half: binary     *)
(* floating point does not hold 0.70 / s or the tenths exactly, so on such *)
(* a request the code's rounding is decided by representation error.       *)
site_tie(B) ==
    LET p == site_fractions(clamp01_site(B.B7), clamp01_site(B.B8), clamp01_site(B.B9))
        area_sf == excel_round(B.B2 * 43560, AcreDen)
    IN  \E q \in {p.p7, p.p8, p.p9} :
            is_half(q[1] * area_sf, q[2]) \/ is_half(q[1] * B.B2, q[2])

(* Every raw site-fraction triple, for three lot sizes, exact halves left out *)
SiteInputs ==
    { r \in { [DefaultResidential EXCEPT !.B2 = a, !.B7 = x, !.B8 = y, !.B9 = z] :
                a \in {0, 22, 33}, x \in (0 - 1)..(SiteDen + 1),
                y \in (0 - 1)..(SiteDen + 1), z \in (0 - 1)..(SiteDen + 1) } :
        ~site_tie(r) }

(* Interior areas, bases, tiers, tenant counts, lots and lookback fields *)
AllocationInputs ==
    { [DefaultResidential EXCEPT !.B1 = a, !.B12 = b, !.B31 = t, !.B5 = n,
                                 !.B2 = l, !.B32 = d, !.B34 = sy] :
        a \in {0 - 20, 0, 161, 402, 601}, b \in ResBasisValues,
        t \in {SFR1, SFR3, <<"M", "F", "R", "$", "$">>}, n \in {0, 2, 3},
        l \in {0, 22}, d \in ResDates, sy \in ResYears }

Pad(n) == [i \in 1..n |-> " "]
Dollars(n) == [i \in 1..n |-> "$"]

TierCodes ==
    { Pad(l) \o pre \o Dollars(n) \o Pad(r) :
        l \in 0..MaxTierPad, r \in 0..MaxTierPad, n \in 0..4,
        pre \in { <<"S", "F", "R">>, <<"s", "f", "r">>, <<"M", "F", "R">>,
                  <<"m", "f", "r">>, <<"M", "F", "R", "X">>, <<"X">>, <<>> } }

TierInputs ==
    { [DefaultResidential EXCEPT !.B31 = t, !.B28 = c] :
        t \in TierCodes, c \in {0, 130, 200} }

(* Interior areas, flooring fractions and bed, bath, tenant and solar counts *)
BucketInputs ==
    { [DefaultResidential EXCEPT !.B1 = a, !.B6 = f, !.B3 = bed, !.B4 = bath,
                                 !.B5 = n, !.B10 = solar, !.B31 = t] :
        a \in {1, 21, 400}, f \in {3, 5, SiteDen}, bed \in {0, 3, 6},
        bath \in {1, 4}, n \in {0, 3}, solar \in {0, 1, 2}, t \in {SFR1, SFR2} }

ResidentialInputs ==
    SiteInputs \cup AllocationInputs \cup TierInputs \cup BucketInputs

ComputeResidential ==
    /\ rout = <<>>
    /\ rout' = <<compute_residential(rin, rin.today)>>
    /\ UNCHANGED <<inp, lb, fs, bdate, brate, cin, cout, mq, mres, rin,
                 rep, clock, first, second, rateq, rateres, seen, now, hook, lastcall,
                 xin, xout>>

InitResidential ==
    /\ rin \in ResidentialInputs
    /\ rout = <<>>
    /\ inp = DefaultLookbackInput
    /\ lb = <<>>
    /\ fs = <<>>
    /\ bdate = Date(FirstYear, 1, 1)
    /\ brate = <<>>
    /\ cin = <<>>
    /\ cout = <<>>
    /\ mq = <<>>
    /\ mres = <<>>
    /\ rep = <<>>
    /\ clock = 0
    /\ first = <<>>
    /\ second = <<>>
    /\ rateq = <<>>
    /\ rateres = <<>>
    /\ seen = <<>>
    /\ now = 0
    /\ hook = <<>>
    /\ lastcall = <<>>
    /\ xin = 0
    /\ xout = <<>>

NextResidential == ComputeResidential

SpecResidential == InitResidential /\ [][NextResidential]_vars

(* Both allocators: a request to one of them, the other one idle after its *)
(* default request.                                                        *)
DefaultCommercial ==
    [B1 |-> 1000 * BasisDen, B2 |-> BANK, B32 |-> Absent, B34 |-> Absent, text |-> {},
     table |-> Guidelines(TRUE, 2, 1, 0, 1), today |-> FirstYear + 5]

InitAllocators ==
    /\ \/ /\ cin \in OtherInputs
          /\ rin = DefaultResidential
       \/ /\ rin \in ResidentialInputs
          /\ cin = DefaultCommercial
    /\ cout = <<>>
    /\ rout = <<>>
    /\ inp = DefaultLookbackInput
    /\ lb = <<>>
    /\ fs = <<>>
    /\ bdate = Date(FirstYear, 1, 1)
    /\ brate = <<>>
    /\ mq = <<>>
    /\ mres = <<>>
    /\ rep = <<>>
    /\ clock = 0
    /\ first = <<>>
    /\ second = <<>>
    /\ rateq = <<>>
    /\ rateres = <<>>
    /\ seen = <<>>
    /\ now = 0
    /\ hook = <<>>
    /\ lastcall = <<>>
    /\ xin = 0
    /\ xout = <<>>

NextAllocators == ComputeCommercial \/ ComputeResidential

SpecAllocators == InitAllocators /\ [][NextAllocators]_vars

(***************************************************************************)
(* The export webhook (app.py).  Deliveries arrive at any time; a handler  *)
(* is suspended once, at `await request.json()`, and everything after it   *)
(* runs without another await, so the rest of the handler is one step of   *)
(* the event loop.  time.time() is counted in whole seconds.               *)
(***************************************************************************)
SEEN_TTL_SECONDS == 60 * 60

MaxDeliveries == 3
MaxTime == 3602
TimeSteps == {1800, 1801}

(* "" stands for a body without runtimeMetadata.actionUuid (None) *)
ActionUuids == {"a", "b", ""}

(* What the rest of the handler meets: no item id in the body, an export   *)
(* and upload that succeed, a RuntimeError, or any other exception.        *)
Fates == {"missing_item_id", "uploaded", "RuntimeError", "Exception"}

(* _seen_action(action_uuid) on the map _seen_actions at time now:         *)
(* [result, seen (the map afterwards)]                                     *)
seen_action_refreshing(sn, t, action_uuid) ==
    LET kept == [k \in {k \in DOMAIN sn : ~(t - sn[k] > SEEN_TTL_SECONDS)} |-> sn[k]]
    IN  [result |-> action_uuid \in DOMAIN kept,
         seen |-> [k \in DOMAIN kept \cup {action_uuid} |->
                      IF k = action_uuid THEN t ELSE kept[k]]]

seen_action(sn, t, action_uuid) ==
    LET kept == [k \in {k \in DOMAIN sn : ~(t - sn[k] > SEEN_TTL_SECONDS)} |-> sn[k]]
    IN  IF action_uuid \in DOMAIN kept
        THEN [result |-> TRUE, seen |-> kept]
        ELSE [result |-> FALSE,
              seen |-> [k \in DOMAIN kept \cup {action_uuid} |->
                           IF k = action_uuid THEN t ELSE kept[k]]]

(* export_eob_webhook after the body is read: the response, whether the    *)
(* export was entered, and the map afterwards.  In the first variant the   *)
(* item id is resolved before the actionUuid is looked up.                 *)
export_eob_webhook_item_first(d, sn, t) ==
    LET chk == seen_action(sn, t, d.uuid)
    IN  IF d.fate = "missing_item_id"
        THEN [seen |-> sn, status |-> 400, deduped |-> FALSE,
              uploaded |-> FALSE, exported |-> FALSE]
        ELSE IF d.uuid # "" /\ chk.result
        THEN [seen |-> chk.seen, status |-> 200, deduped |-> TRUE,
              uploaded |-> FALSE, exported |-> FALSE]
        ELSE [seen |-> IF d.uuid # "" THEN chk.seen ELSE sn,
              status |-> CASE d.fate = "uploaded" -> 200
                           [] d.fate = "RuntimeError" -> 400
                           [] d.fate = "Exception" -> 500,
              deduped |-> FALSE,
              uploaded |-> d.fate = "uploaded", exported |-> TRUE]

export_eob_webhook(d, sn, t) ==
    LET chk == seen_action(sn, t, d.uuid)
        after == IF d.uuid # "" THEN chk.seen ELSE sn
    IN  IF d.uuid # "" /\ chk.result
        THEN [seen |-> chk.seen, status |-> 200, deduped |-> TRUE,
              uploaded |-> FALSE, exported |-> FALSE]
        ELSE IF d.fate = "missing_item_id"
        THEN [seen |-> after, status |-> 400, deduped |-> FALSE,
              uploaded |-> FALSE, exported |-> FALSE]
        ELSE [seen |-> after,
              status |-> CASE d.fate = "uploaded" -> 200
                           [] d.fate = "RuntimeError" -> 400
                           [] d.fate = "Exception" -> 500,
              deduped |-> FALSE,
              uploaded |-> d.fate = "uploaded", exported |-> TRUE]

Handled == { i \in 1..Len(hook) : hook[i].pc = "done" }

(* A delivery arrives and its handler waits for the body; what the body   *)
(* and the export hold in store shows when the handler runs on            *)
Deliver ==
    /\ Len(hook) < MaxDeliveries
    /\ \E u \in ActionUuids :
          hook' = Append(hook, [uuid |-> u, pc |-> "reading"])
    /\ UNCHANGED <<inp, lb, fs, bdate, brate, cin, cout, mq, mres, rin, rout,
                 rep, clock, first, second, rateq, rateres, seen, now, lastcall,
                 xin, xout>>

(* The body is there: the handler runs to its response *)
Handle ==
    \E i \in 1..Len(hook), f \in Fates :
        /\ hook[i].pc = "reading"
        /\ LET d == [uuid |-> hook[i].uuid, fate |-> f]
               r == export_eob_webhook(d, seen, now)
           IN  /\ seen' = r.seen
               /\ hook' = [hook EXCEPT ![i] =
                              [uuid |-> d.uuid, fate |-> d.fate, pc |-> "done",
                               at |-> now, order |-> Cardinality(Handled) + 1,
                               status |-> r.status, deduped |-> r.deduped,
                               uploaded |-> r.uploaded, exported |-> r.exported]]
               /\ lastcall' =
                     IF d.uuid # ""
                     THEN <<[action_uuid |-> d.uuid, at |-> now, before |-> seen,
                             result |-> seen_action(seen, now, d.uuid).result]>>
                     ELSE lastcall
        /\ UNCHANGED <<inp, lb, fs, bdate, brate, cin, cout, mq, mres, rin, rout,
                     rep, clock, first, second, rateq, rateres, now, xin, xout>>

(* Time passes *)
Advance ==
    /\ \E step \in TimeSteps :
          /\ now + step <= MaxTime
          /\ now' = now + step
    /\ UNCHANGED <<inp, lb, fs, bdate, brate, cin, cout, mq, mres, rin, rout,
                 rep, clock, first, second, rateq, rateres, seen, hook, lastcall,
                 xin, xout>>

InitWebhook ==
    /\ seen = <<>>
    /\ now = 0
    /\ hook = <<>>
    /\ lastcall = <<>>
    /\ inp = DefaultLookbackInput
    /\ lb = <<>>
    /\ fs = <<>>
    /\ bdate = Date(FirstYear, 1, 1)
    /\ brate = <<>>
    /\ cin = <<>>
    /\ cout = <<>>
    /\ mq = <<>>
    /\ mres = <<>>
    /\ rin = <<>>
    /\ rout = <<>>
    /\ rep = <<>>
    /\ clock = 0
    /\ first = <<>>
    /\ second = <<>>
    /\ rateq = <<>>
    /\ rateres = <<>>
    /\ xin = 0
    /\ xout = <<>>

NextWebhook == Deliver \/ Handle \/ Advance

SpecWebhook == InitWebhook /\ [][NextWebhook]_vars

(***************************************************************************)
(* building_rate alone, on every year index and month around the tables    *)
(***************************************************************************)
YearPad == 2
MonthPad == 2

RateQueries ==
    { [year_index |-> y, in_service_month |-> m, is_residential |-> r] :
        y \in (0 - YearPad)..(40 + YearPad),
        m \in (1 - MonthPad)..(12 + MonthPad), r \in BOOLEAN }

BuildingRate ==
    /\ rateres = <<>>
    /\ rateres' = <<building_rate(rateq.year_index, rateq.in_service_month,
                                  rateq.is_residential)>>
    /\ UNCHANGED <<inp, lb, fs, bdate, brate, cin, cout, mq, mres, rin, rout,
                 rep, clock, first, second, rateq, seen, now, hook, lastcall,
                 xin, xout>>

InitRate ==
    /\ rateq \in RateQueries
    /\ rateres = <<>>
    /\ inp = DefaultLookbackInput
    /\ lb = <<>>
    /\ fs = <<>>
    /\ bdate = Date(FirstYear, 1, 1)
    /\ brate = <<>>
    /\ cin = <<>>
    /\ cout = <<>>
    /\ mq = <<>>
    /\ mres = <<>>
    /\ rin = <<>>
    /\ rout = <<>>
    /\ rep = <<>>
    /\ clock = 0
    /\ first = <<>>
    /\ second = <<>>
    /\ seen = <<>>
    /\ now = 0
    /\ hook = <<>>
    /\ lastcall = <<>>
    /\ xin = 0
    /\ xout = <<>>

NextRate == BuildingRate

SpecRate == InitRate /\ [][NextRate]_vars

(***************************************************************************)
(* excel_round on binary floating point.  Python computes `y + 0.5` and    *)
(* `y - 0.5` on IEEE-754 numbers and rounds the sum to the nearest number  *)
(* of the format, ties to the even significand.  The format here keeps     *)
(* MantissaBits significant bits (a Python float keeps 53); a number is an *)
(* integer count of units of 2^-(MantissaBits + 1), which is the spacing   *)
(* of the format just below 0.5.                                           *)
(***************************************************************************)
MantissaBits == 5

Pow2(n) == 2 ^ n

UnitsPerOne == Pow2(MantissaBits + 1)

Abs(n) == IF n < 0 THEN 0 - n ELSE n

RECURSIVE BitLength(_)
BitLength(n) == IF n = 0 THEN 0 ELSE 1 + BitLength(n \div 2)

(* the number of the format nearest to n units, ties to even *)
float_nearest(n) ==
    LET a == Abs(n)
        len == BitLength(a)
        q == IF len > MantissaBits THEN Pow2(len - MantissaBits) ELSE 1
        r == a % q
        down == a - r
        up == down + q
        near == IF 2 * r < q THEN down
                ELSE IF 2 * r > q THEN up
                ELSE IF (down \div q) % 2 = 0 THEN down ELSE up
    IN  IF n < 0 THEN 0 - near ELSE near

is_float(n) == float_nearest(n) = n

(* math.floor and math.ceil of n units, as integers *)
floor_units(n) == n \div UnitsPerOne
ceil_units(n) == 0 - ((0 - n) \div UnitsPerOne)

(* excel_round(x, 0) for x = n units: factor = 1.0, y = x * 1.0 = x *)
excel_round_float(n) ==
    LET y == n
        half == UnitsPerOne \div 2
    IN  IF y >= 0 THEN floor_units(float_nearest(y + half))
        ELSE ceil_units(float_nearest(y - half))

(* every number of the format up to 2^MantissaBits in magnitude *)
RoundInputs ==
    { n \in (0 - UnitsPerOne * Pow2(MantissaBits))..(UnitsPerOne * Pow2(MantissaBits)) :
        is_float(n) }

ExcelRound ==
    /\ xout = <<>>
    /\ xout' = <<excel_round_float(xin)>>
    /\ UNCHANGED <<inp, lb, fs, bdate, brate, cin, cout, mq, mres, rin, rout,
                 rep, clock, first, second, rateq, rateres, seen, now, hook, lastcall,
                 xin>>

InitRound ==
    /\ xin \in RoundInputs
    /\ xout = <<>>
    /\ inp = DefaultLookbackInput
    /\ lb = <<>>
    /\ fs = <<>>
    /\ bdate = Date(FirstYear, 1, 1)
    /\ brate = <<>>
    /\ cin = <<>>
    /\ cout = <<>>
    /\ mq = <<>>
    /\ mres = <<>>
    /\ rin = <<>>
    /\ rout = <<>>
    /\ rep = <<>>
    /\ clock = 0
    /\ first = <<>>
    /\ second = <<>>
    /\ rateq = <<>>
    /\ rateres = <<>>
    /\ seen = <<>>
    /\ now = 0
    /\ hook = <<>>
    /\ lastcall = <<>>

NextRound == ExcelRound

SpecRound == InitRound /\ [][NextRound]_vars

(***************************************************************************)
(* Malformed requests: a numeric cell holding a string that is no number,  *)
(* an unparseable date or study year, a guideline table without the        *)
(* property-type column, a property type that is no valid pattern.         *)
(***************************************************************************)
MalformedCommercial ==
    { [DefaultCommercial EXCEPT !.B2 = q, !.B32 = d, !.B34 = sy, !.text = t,
                                !.table = Guidelines(col, 2, 1, 0, 1)] :
        q \in {BANK, <<"(">>, <<>>, <<"z">>},
        d \in OptionalDates \cup {Unparseable},
        sy \in OptionalYears \cup {Unparseable},
        t \in {{}, {"B1"}}, col \in BOOLEAN }

MalformedResidential ==
    { [DefaultResidential EXCEPT !.B32 = d, !.B34 = sy, !.text = t] :
        d \in ResDates, sy \in ResYears,
        t \in {{}} \cup { {k} : k \in ResidentialFloatCells \cup {"B6", "B7", "B8", "B9"} } }

InitMalformed ==
    /\ \/ /\ cin \in MalformedCommercial
          /\ rin = DefaultResidential
       \/ /\ rin \in MalformedResidential
          /\ cin = DefaultCommercial
    /\ cout = <<>>
    /\ rout = <<>>
    /\ inp = DefaultLookbackInput
    /\ lb = <<>>
    /\ fs = <<>>
    /\ bdate = Date(FirstYear, 1, 1)
    /\ brate = <<>>
    /\ mq = <<>>
    /\ mres = <<>>
    /\ rep = <<>>
    /\ clock = 0
    /\ first = <<>>
    /\ second = <<>>
    /\ rateq = <<>>
    /\ rateres = <<>>
    /\ seen = <<>>
    /\ now = 0
    /\ hook = <<>>
    /\ lastcall = <<>>
    /\ xin = 0
    /\ xout = <<>>

NextMalformed == ComputeCommercial \/ ComputeResidential

SpecMalformed == InitMalformed /\ [][NextMalformed]_vars

(***************************************************************************)
(* The same request issued twice.  Both allocators take an optional        *)
(* `today`; when the caller leaves it out (app.py and main.py always do)   *)
(* the allocator reads date.today().  Between the two calls the year may   *)
(* change and the engine may serve another request.                        *)
(***************************************************************************)
LastClockYear == FirstYear + 6

(* `if today is None: today = date.today()` *)
today_of_clock(today, year) == year

today_of(today, year) == IF today.tag = "ok" THEN today.value ELSE year

call_engine(r, year) ==
    IF r.kind = "residential"
    THEN compute_residential(r.B, today_of(r.today, year))
    ELSE compute_commercial(r.B, r.B.table, today_of(r.today, year))

RepeatTodays == { Absent, [tag |-> "ok", value |-> FirstYear + 5] }

RepeatRequests ==
    { [kind |-> "residential", today |-> t,
       B |-> [DefaultResidential EXCEPT !.B32 = d, !.B34 = sy]] :
        t \in RepeatTodays, d \in ResDates, sy \in ResYears }
    \cup
    { [kind |-> "commercial", today |-> t,
       B |-> [DefaultCommercial EXCEPT !.B32 = d, !.B34 = sy]] :
        t \in RepeatTodays, d \in OptionalDates \cup {Unparseable},
        sy \in OptionalYears \cup {Unparseable} }

(* The request sent by another caller between the two calls *)
OtherRequest ==
    [DefaultResidential EXCEPT
        !.B32 = [tag |-> "ok", value |-> Date(FirstYear, 1, 1)]]

(* Who calls the engine: the repeated request a first and a second time,   *)
(* and another caller, without `today`, at any moment                      *)
Callers == {"first", "second", "other"}

request_of(who) ==
    IF who = "other"
    THEN [kind |-> "residential", today |-> Absent, B |-> rin]
    ELSE rep

Call ==
    /\ \E who \in Callers :
          \E out \in {call_engine(request_of(who), clock)} :
              CASE who = "first" ->
                     /\ first = <<>>
                     /\ first' = <<[at |-> clock, out |-> out]>>
                     /\ UNCHANGED <<second, rout>>
                [] who = "second" ->
                     /\ first # <<>>
                     /\ second = <<>>
                     /\ second' = <<[at |-> clock, out |-> out]>>
                     /\ UNCHANGED <<first, rout>>
                [] who = "other" ->
                     /\ rout = <<>>
                     /\ rout' = <<out>>
                     /\ UNCHANGED <<first, second>>
    /\ UNCHANGED <<inp, lb, fs, bdate, brate, cin, cout, mq, mres, rin,
                 rep, clock, rateq, rateres, seen, now, hook, lastcall,
                 xin, xout>>

(* New Year: date.today().year grows by one *)
Tick ==
    /\ clock < LastClockYear
    /\ clock' = clock + 1
    /\ UNCHANGED <<inp, lb, fs, bdate, brate, cin, cout, mq, mres, rin, rout,
                 rep, first, second, rateq, rateres, seen, now, hook, lastcall,
                 xin, xout>>

InitRepeat ==
    /\ rep \in RepeatRequests
    /\ clock \in {FirstYear + 4, FirstYear + 5}
    /\ first = <<>>
    /\ second = <<>>
    /\ rin = OtherRequest
    /\ rout = <<>>
    /\ inp = DefaultLookbackInput
    /\ lb = <<>>
    /\ fs = <<>>
    /\ bdate = Date(FirstYear, 1, 1)
    /\ brate = <<>>
    /\ cin = <<>>
    /\ cout = <<>>
    /\ mq = <<>>
    /\ mres = <<>>
    /\ rateq = <<>>
    /\ rateres = <<>>
    /\ seen = <<>>
    /\ now = 0
    /\ hook = <<>>
    /\ lastcall = <<>>
    /\ xin = 0
    /\ xout = <<>>

NextRepeat == Call \/ Tick

SpecRepeat == InitRepeat /\ [][NextRepeat]_vars

---------------------------------------------------------------------------
(* Properties of the generator.  They are written against the request      *)
(* (inp) and the tables, independently of the operators above.             *)

InYear == inp.in_service_date.year
InMonth == inp.in_service_date.month
IsBuilding == inp.asset_kind = "building"
RoundedBasis == excel_round(inp.basis, BasisDen)
NonDegenerate == RoundedBasis > 0 /\ inp.study_year >= InYear

(* Maximum table length of the requested class: 6, 8, 16, 29, 40 *)
TableLength ==
    CASE inp.asset_kind = "5" -> 6
      [] inp.asset_kind = "7" -> 8
      [] inp.asset_kind = "15" -> 16
      [] IsBuilding /\ inp.is_residential_building -> 29
      [] IsBuilding /\ ~inp.is_residential_building -> 40

(* Rate of table year k of the requested class *)
TableRate(k) ==
    CASE inp.asset_kind = "5" -> MACRS_5_YEAR[k]
      [] inp.asset_kind = "7" -> MACRS_7_YEAR[k]
      [] inp.asset_kind = "15" -> MACRS_15_YEAR[k]
      [] IsBuilding /\ inp.is_residential_building -> MACRS_27_5_YEAR[k][InMonth]
      [] IsBuilding /\ ~inp.is_residential_building -> MACRS_39_YEAR[k][InMonth]

RECURSIVE SumDepreciation(_, _)
SumDepreciation(rows, k) ==
    IF k = 0 THEN 0 ELSE rows[k].depreciation + SumDepreciation(rows, k - 1)

RECURSIVE SumThrough(_, _, _)
SumThrough(f, years, last) ==
    IF years = {} THEN 0
    ELSE LET y == CHOOSE x \in years : TRUE
         IN  (IF y <= last THEN f[y] ELSE 0) + SumThrough(f, years \ {y}, last)

(* C2: bonus exclusivity.  In a result of compute_lookback that reached    *)
(* the asset-kind branch, a building has bonus_rate = 0, bonus_amount = 0  *)
(* and depreciable_basis = basis; a 5/7/15 asset has bonus_amount =        *)
(* round(basis x rate of the bonus-schedule range holding the in-service   *)
(* date) and depreciable_basis = basis - bonus_amount.                     *)
C2_BonusExclusivity ==
    (lb # <<>> /\ NonDegenerate) =>
        LET r == lb[1]
        IN  IF IsBuilding
            THEN /\ r.bonus_rate = 0
                 /\ r.bonus_amount = 0
                 /\ r.depreciable_basis = RoundedBasis
            ELSE /\ r.bonus_amount =
                      excel_round(RoundedBasis *
                          get_bonus_rate_schedule(inp.in_service_date), BonusDen)
                 /\ r.depreciable_basis = RoundedBasis - r.bonus_amount

(* C3: get_bonus_rate(d) is the rate of the BONUS_SCHEDULE range           *)
(* start <= d <= end that contains d, and 0 when no range contains d.      *)
C3_BonusRateByDate ==
    brate # <<>> =>
        /\ \A i \in 1..Len(BONUS_SCHEDULE) :
              (DateLE(BONUS_SCHEDULE[i][1], bdate) /\ DateLE(bdate, BONUS_SCHEDULE[i][2]))
                  => brate[1] = BONUS_SCHEDULE[i][3]
        /\ (\A i \in 1..Len(BONUS_SCHEDULE) :
              ~(DateLE(BONUS_SCHEDULE[i][1], bdate) /\ DateLE(bdate, BONUS_SCHEDULE[i][2])))
                  => brate[1] = 0

(* C4: schedule boundedness.  A result has at most TableLength rows        *)
(* (6, 8, 16, 29, 40) and no row later than in-service year +              *)
(* TableLength - 1, however far the study year lies beyond the life.       *)
C4_ScheduleBounded ==
    lb # <<>> =>
        LET rows == lb[1].year_by_year
        IN  /\ Len(rows) <= TableLength
            /\ \A k \in 1..Len(rows) :
                  rows[k].calendar_year <= InYear + TableLength - 1

C4_Witness ==
    /\ lb # <<>>
    /\ inp.study_year > InYear + TableLength
    /\ Len(lb[1].year_by_year) = TableLength
    /\ TableLength = 40

(* C5: degenerate bounds.  With rounded basis <= 0 or study_year before    *)
(* the in-service year the result has no rows and bonus_amount, current    *)
(* year and cumulative depreciation 0; with basis = 0 every numeric field  *)
(* is 0.                                                                   *)
C5_DegenerateZeroed ==
    lb # <<>> =>
        LET r == lb[1]
        IN  /\ ~NonDegenerate =>
                /\ r.year_by_year = <<>>
                /\ r.bonus_amount = 0
                /\ r.current_year_depreciation = 0
                /\ r.cumulative_depreciation = 0
            /\ inp.basis = 0 =>
                /\ r.original_basis = 0
                /\ r.bonus_rate = 0
                /\ r.bonus_amount = 0
                /\ r.depreciable_basis = 0
                /\ r.current_year_depreciation = 0
                /\ r.cumulative_depreciation = 0
                /\ r.net_book_value = 0

C5_Witness ==
    /\ lb # <<>>
    /\ RoundedBasis > 0
    /\ inp.study_year < InYear
    /\ ~IsBuilding
    /\ lb[1].year_by_year = <<>>

(* C6: the full schedule agrees with the lookback.  For the same request,  *)
(* every lookback row's depreciation is the full schedule's amount of that *)
(* calendar year, except that for 5/7/15 the first-year amount is          *)
(* bonus_amount + first row; and the full schedule summed through the      *)
(* study year is the lookback's cumulative_depreciation.                   *)
C6_FullScheduleAgrees ==
    (lb # <<>> /\ fs # <<>>) =>
        LET r == lb[1]
            f == fs[1]
            rows == r.year_by_year
        IN  /\ \A k \in 1..Len(rows) :
                  /\ rows[k].calendar_year \in DOMAIN f
                  /\ f[rows[k].calendar_year] =
                        rows[k].depreciation +
                        (IF k = 1 /\ ~IsBuilding THEN r.bonus_amount ELSE 0)
            /\ SumThrough(f, DOMAIN f, inp.study_year) = r.cumulative_depreciation

C6_Witness ==
    /\ lb # <<>>
    /\ fs # <<>>
    /\ inp.asset_kind = "7"
    /\ lb[1].bonus_amount > 0
    /\ Len(lb[1].year_by_year) = 3
    /\ lb[1].year_by_year[3].depreciation > 0

(* C7: cumulative accounting.  The k-th row's cumulative is bonus_amount   *)
(* plus the depreciation of rows 1..k, no row carries the bonus (each row  *)
(* is the rounded product of the depreciable basis and its rate), the      *)
(* result's cumulative is the last row's, and net_book_value =             *)
(* original_basis - cumulative_depreciation.                               *)
C7_CumulativeAccounting ==
    lb # <<>> =>
        LET r == lb[1]
            rows == r.year_by_year
        IN  /\ \A k \in 1..Len(rows) :
                  /\ rows[k].cumulative =
                        r.bonus_amount + SumDepreciation(rows, k)
                  /\ rows[k].depreciation =
                        excel_round(r.depreciable_basis * rows[k].rate, RateDen)
            /\ IsBuilding => r.bonus_amount = 0
            /\ rows # <<>> =>
                  r.cumulative_depreciation = rows[Len(rows)].cumulative
            /\ r.net_book_value = r.original_basis - r.cumulative_depreciation

C7_Witness ==
    /\ lb # <<>>
    /\ inp.asset_kind = "15"
    /\ lb[1].bonus_amount > 0
    /\ Len(lb[1].year_by_year) >= 3
    /\ lb[1].year_by_year[3].depreciation > 0

(* C8: current_year_depreciation is the depreciation of the row whose      *)
(* calendar_year is study_year, and 0 when there is no such row.           *)
C8_CurrentYear ==
    lb # <<>> =>
        LET r == lb[1]
            rows == r.year_by_year
            hits == {k \in 1..Len(rows) : rows[k].calendar_year = inp.study_year}
        IN  IF hits = {}
            THEN r.current_year_depreciation = 0
            ELSE \A k \in hits : r.current_year_depreciation = rows[k].depreciation

C8_Witness ==
    /\ lb # <<>>
    /\ lb[1].year_by_year # <<>>
    /\ inp.study_year > InYear + TableLength - 1
    /\ lb[1].year_by_year[Len(lb[1].year_by_year)].depreciation > 0
    /\ lb[1].current_year_depreciation = 0

(* C9: row shape.  For basis > 0 and study_year >= in-service year the     *)
(* k-th row has depreciation_year k, calendar_year in-service year + k - 1,*)
(* the class table's rate of year k (in-service month column for           *)
(* buildings) and depreciation round(depreciable_basis x rate); there are  *)
(* min(study_year - in-service year + 1, table length) rows.               *)
C9_RowShape ==
    (lb # <<>> /\ NonDegenerate) =>
        LET r == lb[1]
            rows == r.year_by_year
        IN  /\ Len(rows) = Min(inp.study_year - InYear + 1, TableLength)
            /\ \A k \in 1..Len(rows) :
                  /\ rows[k].depreciation_year = k
                  /\ rows[k].calendar_year = InYear + k - 1
                  /\ rows[k].rate = TableRate(k)
                  /\ rows[k].depreciation =
                        excel_round(r.depreciable_basis * TableRate(k), RateDen)

C9_Witness ==
    /\ lb # <<>>
    /\ IsBuilding
    /\ InMonth = 7
    /\ Len(lb[1].year_by_year) = 29
    /\ lb[1].year_by_year[1].depreciation > 0
    /\ lb[1].year_by_year[29].depreciation > 0

---------------------------------------------------------------------------
(* Properties of the commercial allocator *)

ComDone == cout # <<>> /\ ~cout[1].raised
ComMatched == ComDone /\ ~cout[1].res.lookup_failed
ComBasis == IF cin.B1 >= 0 THEN cin.B1 ELSE 0

(* The guideline row of the matched property type, fractions clamped *)
MatchedRow ==
    CHOOSE r \in {cin.table.rows[i] : i \in 1..Len(cin.table.rows)} :
        r.ptype = cout[1].res.matched_property_type
Clamped(x) == IF x < 0 THEN 0 ELSE IF x > FracDen THEN FracDen ELSE x
RoundedProduct(frac) == excel_round(ComBasis * Clamped(frac), BasisDen * FracDen)
RoundedSum ==
    RoundedProduct(MatchedRow.f39) + RoundedProduct(MatchedRow.f15)
    + RoundedProduct(MatchedRow.f7) + RoundedProduct(MatchedRow.f5)
Residual == excel_round(ComBasis - RoundedSum * BasisDen, BasisDen)

(* C1: commercial basis conservation.  For a matched property type, any    *)
(* basis >= 0 and any clamped guideline fractions,                         *)
(* A39 + A15 + A7 + A5 = round(basis), half away from zero.                *)
C1_BasisConservation ==
    (ComMatched /\ cin.B1 >= 0) =>
        LET res == cout[1].res
        IN  res.A39 + res.A15 + res.A7 + res.A5 = excel_round(cin.B1, BasisDen)

(* C10: reconciliation touches only the 39-year bucket.  A5, A7 and A15    *)
(* are round(basis x p5), round(basis x p7), round(basis x p15); A39 is    *)
(* round(basis x p39) plus the whole residual                              *)
(* round(basis - sum of the four rounded amounts).                         *)
C10_ResidualTo39Only ==
    ComMatched =>
        LET res == cout[1].res
        IN  /\ res.A5 = RoundedProduct(MatchedRow.f5)
            /\ res.A7 = RoundedProduct(MatchedRow.f7)
            /\ res.A15 = RoundedProduct(MatchedRow.f15)
            /\ res.A39 = RoundedProduct(MatchedRow.f39) + Residual

C10_Witness ==
    /\ ComMatched
    /\ Residual # 0
    /\ cout[1].res.A5 > 0
    /\ cout[1].res.A7 > 0
    /\ cout[1].res.A15 > 0
    /\ cout[1].res.A39 # RoundedProduct(MatchedRow.f39)

---------------------------------------------------------------------------
(* Properties of the property-type match *)

MatchQuery == lower(strip(mq.prop_type))
MatchIdx == 1..Len(mq.df.rows)
EqualRows == {i \in MatchIdx : lower(mq.df.rows[i].ptype) = MatchQuery}
SubstringRows ==
    {i \in MatchIdx :
        \E k \in 0..(Len(mq.df.rows[i].ptype) - Len(MatchQuery)) :
            SubSeq(lower(mq.df.rows[i].ptype), k + 1, k + Len(MatchQuery)) = MatchQuery}
Least(S) == CHOOSE i \in S : \A j \in S : i <= j
MatchDone == mres # <<>> /\ mq.df.has_ptype_col

(* C11: the result is the first row, in table order, equal to the query    *)
(* (case-insensitively), else the first row that contains the query as a   *)
(* substring; the match reports failure, without raising, exactly when no  *)
(* row passes either test or the query is blank.                           *)
C11_MatchRow ==
    MatchDone =>
        LET r == mres[1]
        IN  IF MatchQuery = <<>> \/ (EqualRows \cup SubstringRows) = {}
            THEN ~r.raised /\ r.failed /\ r.row = 0
            ELSE IF EqualRows # {}
            THEN ~r.raised /\ ~r.failed /\ r.row = Least(EqualRows)
            ELSE ~r.raised /\ ~r.failed /\ r.row = Least(SubstringRows)

---------------------------------------------------------------------------
(* Properties of the commercial lookup failure and lookback activation *)

ComQuery == lower(strip(cin.B2))
ComHits ==
    {i \in 1..Len(cin.table.rows) :
        \E k \in 0..(Len(cin.table.rows[i].ptype) - Len(ComQuery)) :
            SubSeq(lower(cin.table.rows[i].ptype), k + 1, k + Len(ComQuery)) = ComQuery}
ComUnmatched ==
    cout # <<>> /\ cin.table.has_ptype_col /\ (ComQuery = <<>> \/ ComHits = {})
ZeroShare(x) == x[1] = 0

BothSupplied == cin.B32.tag = "ok" /\ cin.B34.tag = "ok"

(* C13: for a matched property type the lookback is active exactly when a  *)
(* parseable in-service date and a parseable study year are both supplied; *)
(* a missing field stays missing; when active the four schedules are the   *)
(* 39-year building, 15, 7 and 5-year lookbacks of A39, A15, A7, A5 for    *)
(* the supplied date and study year.                                       *)
C13_CommercialActivation ==
    ComMatched =>
        LET r == cout[1].res
            sched(A, kind) ==
                <<compute_lookback(A * BasisDen, cin.B32.value, cin.B34.value,
                                   kind, FALSE)>>
        IN  /\ r.lookback_active <=> BothSupplied
            /\ r.in_service_date =
                   (IF cin.B32.tag = "ok" THEN <<cin.B32.value>> ELSE <<>>)
            /\ r.study_year =
                   (IF cin.B34.tag = "ok" THEN <<cin.B34.value>> ELSE <<>>)
            /\ IF BothSupplied
               THEN /\ r.lb_39 = sched(r.A39, "building")
                    /\ r.lb_15 = sched(r.A15, "15")
                    /\ r.lb_7 = sched(r.A7, "7")
                    /\ r.lb_5 = sched(r.A5, "5")
               ELSE /\ r.lb_39 = <<>> /\ r.lb_15 = <<>>
                    /\ r.lb_7 = <<>> /\ r.lb_5 = <<>>

C13_Witness ==
    /\ ComMatched
    /\ BothSupplied
    /\ cout[1].res.lookback_active
    /\ cout[1].res.A39 > 0 /\ cout[1].res.A15 > 0 /\ cout[1].res.A5 > 0
    /\ Len(cout[1].res.lb_39[1].year_by_year) > 1
    /\ Len(cout[1].res.lb_5[1].year_by_year) > 1

---------------------------------------------------------------------------
(* Properties of the residential allocator and of both allocators *)

ResDone == rout # <<>> /\ ~rout[1].raised
DateSupplied == rin.B32.tag = "ok"
YearSupplied == rin.B34.tag = "ok"

ComProjection == commercial_to_estimator_payload(cout[1].res).yearly
ResProjection == rout[1].payload.yearly

(* C15: in both allocators a result whose lookback is inactive has         *)
(* years_in_service 0, the three aggregates 0, no per-class schedule and   *)
(* an empty yearly projection.                                             *)
C15_InactiveYieldsNothing ==
    /\ (ComDone /\ ~cout[1].res.lookback_active) =>
          LET r == cout[1].res
          IN  /\ r.years_in_service = 0
              /\ r.total_current_year_depr = 0
              /\ r.total_cumulative_depr = 0
              /\ r.prior_years_depr = 0
              /\ r.lb_39 = <<>> /\ r.lb_15 = <<>> /\ r.lb_7 = <<>> /\ r.lb_5 = <<>>
              /\ DOMAIN ComProjection = {}
              /\ ~r.lookup_failed => DOMAIN cout[1].payload.yearly = {}
    /\ (ResDone /\ ~rout[1].res.lookback_active) =>
          LET r == rout[1].res
          IN  /\ r.years_in_service = 0
              /\ r.total_current_year_depr = 0
              /\ r.total_cumulative_depr = 0
              /\ r.prior_years_depr = 0
              /\ r.lookback_building = <<>>
              /\ r.lookback_5 = <<>> /\ r.lookback_15 = <<>>
              /\ DOMAIN ResProjection = {}

C15_Witness ==
    /\ ResDone /\ ComMatched
    /\ ~rout[1].res.lookback_active /\ ~cout[1].res.lookback_active
    /\ \/ rin.B32.tag = "bad" /\ rin.B34.tag = "bad" /\ rin.B12 > BasisDen
       \/ cin.B32.tag = "ok" /\ cin.B34.tag = "bad" /\ cin.B1 > BasisDen

(* C16: with the lookback active, years_in_service is                      *)
(* max(0, study year - in-service year + 1), the current-year and          *)
(* cumulative totals are the sums over the classes, and prior-years is     *)
(* cumulative minus current when years_in_service > 1, else 0.             *)
C16_ActiveAggregates ==
    /\ (ComDone /\ cout[1].res.lookback_active) =>
          LET r == cout[1].res
              n == r.study_year[1] - r.in_service_date[1].year + 1
              cur == r.lb_39[1].current_year_depreciation
                     + r.lb_15[1].current_year_depreciation
                     + r.lb_7[1].current_year_depreciation
                     + r.lb_5[1].current_year_depreciation
              cum == r.lb_39[1].cumulative_depreciation
                     + r.lb_15[1].cumulative_depreciation
                     + r.lb_7[1].cumulative_depreciation
                     + r.lb_5[1].cumulative_depreciation
          IN  /\ r.years_in_service = (IF n > 0 THEN n ELSE 0)
              /\ r.total_current_year_depr = cur
              /\ r.total_cumulative_depr = cum
              /\ r.prior_years_depr = (IF n > 1 THEN cum - cur ELSE 0)
    /\ (ResDone /\ rout[1].res.lookback_active) =>
          LET r == rout[1].res
              n == r.study_year[1] - r.in_service_date[1].year + 1
              cur == r.lookback_building[1].current_year_depreciation
                     + r.lookback_5[1].current_year_depreciation
                     + r.lookback_15[1].current_year_depreciation
              cum == r.lookback_building[1].cumulative_depreciation
                     + r.lookback_5[1].cumulative_depreciation
                     + r.lookback_15[1].cumulative_depreciation
          IN  /\ r.years_in_service = (IF n > 0 THEN n ELSE 0)
              /\ r.total_current_year_depr = cur
              /\ r.total_cumulative_depr = cum
              /\ r.prior_years_depr = (IF n > 1 THEN cum - cur ELSE 0)

C16_Witness ==
    /\ ResDone
    /\ rin.B32 = [tag |-> "ok", value |-> Date(2021, 1, 1)]
    /\ rin.B34 = [tag |-> "ok", value |-> 2025]
    /\ rout[1].res.years_in_service = 5
    /\ rout[1].res.total_current_year_depr > 0
    /\ rout[1].res.prior_years_depr
          = rout[1].res.total_cumulative_depr - rout[1].res.total_current_year_depr
    /\ rout[1].res.prior_years_depr > 0

(* C17: whenever the modeled total B16 is positive, the three allocated    *)
(* amounts sum to the caller's basis: D13 + D14 + D15 = round(B12).        *)
C17_ResidentialBasisConservation ==
    (ResDone /\ rout[1].res.B16 > 0) =>
        rout[1].res.D13 + rout[1].res.D14 + rout[1].res.D15
            = excel_round(rin.B12, BasisDen)

(* round(n / d) for d > 0, halves away from zero *)
RoundedQuotient(n, d) ==
    IF n >= 0 THEN (2 * n + d) \div (2 * d) ELSE 0 - ((2 * (0 - n) + d) \div (2 * d))

SameRatio(x, n, d) == x[1] * d = n * x[2]

(* C18: each residential share is bucket / B16 when B16 > 0 and 0          *)
(* otherwise, each allocated amount is round(share x B12), so a total      *)
(* B16 <= 0 allocates nothing; the commercial shares are amount / basis    *)
(* when the basis is positive and 0 otherwise; neither allocator fails on  *)
(* a zero total.                                                           *)
C18_ShareAllocation ==
    /\ rout # <<>> =>
          /\ ~rout[1].raised
          /\ LET r == rout[1].res
             IN  IF r.B16 > 0
                 THEN /\ r.D13 = RoundedQuotient(r.B13 * rin.B12, r.B16 * BasisDen)
                      /\ r.D14 = RoundedQuotient(r.B14 * rin.B12, r.B16 * BasisDen)
                      /\ r.D15 = RoundedQuotient(r.B15 * rin.B12, r.B16 * BasisDen)
                      /\ r.C13_pct = RoundedQuotient(r.B13 * 10000, r.B16)
                      /\ r.C14_pct = RoundedQuotient(r.B14 * 10000, r.B16)
                      /\ r.C15_pct = RoundedQuotient(r.B15 * 10000, r.B16)
                      /\ r.C16_pct = RoundedQuotient((r.B14 + r.B15) * 10000, r.B16)
                 ELSE /\ r.D13 = 0 /\ r.D14 = 0 /\ r.D15 = 0 /\ r.D16 = 0
                      /\ r.C13_pct = 0 /\ r.C14_pct = 0
                      /\ r.C15_pct = 0 /\ r.C16_pct = 0
    /\ (cout # <<>> /\ cin.table.has_ptype_col) =>
          /\ ~cout[1].raised
          /\ ~cout[1].res.lookup_failed =>
                LET r == cout[1].res
                IN  IF cin.B1 > 0
                    THEN /\ SameRatio(r.s39, r.A39 * BasisDen, cin.B1)
                         /\ SameRatio(r.s15, r.A15 * BasisDen, cin.B1)
                         /\ SameRatio(r.s7, r.A7 * BasisDen, cin.B1)
                         /\ SameRatio(r.s5, r.A5 * BasisDen, cin.B1)
                    ELSE /\ r.s39[1] = 0 /\ r.s15[1] = 0
                         /\ r.s7[1] = 0 /\ r.s5[1] = 0 /\ r.s_accel[1] = 0

C18_Witness ==
    /\ ResDone
    /\ rout[1].res.B16 < 0
    /\ rout[1].res.B14 > 0
    /\ rin.B12 > BasisDen
    /\ rout[1].res.D13 = 0 /\ rout[1].res.D14 = 0 /\ rout[1].res.D15 = 0

RawSite == <<clamp01_site(rin.B7), clamp01_site(rin.B8), clamp01_site(rin.B9)>>
RawSiteSum == RawSite[1] + RawSite[2] + RawSite[3]
Site == site_fractions(RawSite[1], RawSite[2], RawSite[3])
SiteList == <<Site.p7, Site.p8, Site.p9>>
OverCap == 10 * RawSiteSum > 7 * SiteDen

TierRaw == upper(strip(rin.B31))
HasMFRPrefix == Len(TierRaw) >= 3 /\ SubSeq(TierRaw, 1, 3) = <<"M", "F", "R">>
RecognizedSFR == TierRaw \in {SFR1, SFR2, SFR3}
RecognizedMFR ==
    /\ HasMFRPrefix
    /\ (<<"S", "F", "R">> \o SubSeq(TierRaw, 4, Len(TierRaw))) \in {SFR1, SFR2, SFR3}
ResolvedTo(tier, building, rate) ==
    /\ rout[1].res.inputs.B31 = tier
    /\ rout[1].res.building_type = building
    /\ rout[1].res.inputs.B28 = rate
    /\ rout[1].res.D17 = RoundedQuotient(TIER_RATES[tier].rate17 * rin.B5, UnitDen)
    /\ rout[1].res.D28 = RoundedQuotient(rate * rin.B1, UnitDen)

(* C20 as stated: every code prefixed "MFR" resolves to the SFR table of   *)
(* the same suffix with building type MFR and $/SF 200; a recognized SFR   *)
(* code resolves to itself with the caller's $/SF; every other code        *)
(* resolves to SFR$.                                                       *)
C20_TierResolution ==
    rout # <<>> =>
        /\ ~rout[1].raised
        /\ IF HasMFRPrefix
           THEN /\ rout[1].res.building_type = "MFR"
                /\ rout[1].res.inputs.B28 = 200
                /\ rout[1].res.inputs.B31
                      = <<"S", "F", "R">> \o SubSeq(TierRaw, 4, Len(TierRaw))
           ELSE IF RecognizedSFR THEN ResolvedTo(TierRaw, "SFR", rin.B28)
           ELSE ResolvedTo(SFR1, "SFR", rin.B28)

(* C20 amended: the codes MFR$, MFR$$ and MFR$$$ (case-insensitive, blanks *)
(* ignored) resolve to the SFR table of the same suffix with building type *)
(* MFR and $/SF 200; a recognized SFR code resolves to itself with the     *)
(* caller's $/SF; every other code, any other "MFR"-prefixed code          *)
(* included, resolves to SFR$ with building type SFR and the caller's      *)
(* $/SF, without raising.                                                  *)
C20_TierResolutionExact ==
    rout # <<>> =>
        /\ ~rout[1].raised
        /\ IF RecognizedMFR
           THEN ResolvedTo(<<"S", "F", "R">> \o SubSeq(TierRaw, 4, Len(TierRaw)),
                           "MFR", 200)
           ELSE IF RecognizedSFR THEN ResolvedTo(TierRaw, "SFR", rin.B28)
           ELSE ResolvedTo(SFR1, "SFR", rin.B28)

C20_Witness ==
    /\ ResDone
    /\ HasMFRPrefix /\ ~RecognizedMFR
    /\ rin.B28 # 200
    /\ rout[1].res.building_type = "SFR"
    /\ rout[1].res.inputs.B31 = SFR1
    /\ rout[1].res.inputs.B28 = rin.B28

(***************************************************************************)
(* C21  Residential modeled buckets.  In every residential result D22 is   *)
(* the sum of five terms rounded one by one: the tier's rate times the     *)
(* tenant, bed, bath and solar counts and times the adjusted interior area *)
(* round(B1 * B6); and D30 is round(B28 * B1) - D22, not clamped, so that  *)
(* D30 + D22 = round(B28 * B1) also when D30 is negative.                  *)
(***************************************************************************)
C21_ModeledBuckets ==
    ResDone =>
        LET r == rout[1].res
            B == r.inputs
            rates == TIER_RATES[B.B31]
            area == excel_round(rin.B1 * clamp01_site(rin.B6), UnitDen * SiteDen)
            whole == excel_round(B.B28 * rin.B1, UnitDen)
        IN  /\ r.D17 = excel_round(rates.rate17 * rin.B5, UnitDen)
            /\ r.D18 = excel_round(rates.rate18 * rin.B3, UnitDen)
            /\ r.D19 = excel_round(rates.rate19 * rin.B4, UnitDen)
            /\ r.D20 = excel_round(rates.rate20 * area, 1)
            /\ r.D21 = excel_round(rates.rate21 * rin.B10, UnitDen)
            /\ r.D22 = r.D17 + r.D18 + r.D19 + r.D20 + r.D21
            /\ r.D30 = whole - r.D22
            /\ r.D30 + r.D22 = whole

(* a result whose five terms are all nonzero and whose D30 is negative *)
C21_Witness ==
    /\ ResDone
    /\ rout[1].res.D30 < 0
    /\ \A k \in {"D17", "D18", "D19", "D20", "D21"} : rout[1].res[k] > 0
    /\ rin.B3 % UnitDen # 0

(***************************************************************************)
(* C22  Determinism, as stated: two calls with identical inputs return     *)
(* identical results whatever happens between them, the passing of time    *)
(* included.                                                               *)
(***************************************************************************)
BothCalled == first # <<>> /\ second # <<>>

ReadsClock ==
    /\ rep.kind = "residential"
    /\ rep.today.tag # "ok"
    /\ rep.B.B32.tag = "ok"
    /\ rep.B.B34.tag # "ok"

C23_GracefulDegradation ==
    /\ rout # <<>> =>
          /\ ~rout[1].raised
          /\ rout[1].res.lookback_active = (DateSupplied \/ YearSupplied)
    /\ (cout # <<>> /\ cin.table.has_ptype_col
          /\ ~invalid_pattern(lower(strip(cin.B2)))) => ~cout[1].raised

(***************************************************************************)
(* C24  Configuration error propagates: compute_commercial raises, and     *)
(* returns no result, exactly when the guideline table has no              *)
(* property-type column, whatever the request.                             *)
(***************************************************************************)
C24_ConfigurationErrorOnly ==
    cout # <<>> =>
        /\ cout[1].raised <=> ~cin.table.has_ptype_col
        /\ cout[1].raised => "res" \notin DOMAIN cout[1]

(***************************************************************************)
(* C25  Rounding law: for every x, excel_round(x, 0) is an integer nearest *)
(* to x, the one away from zero when x lies exactly halfway; so            *)
(* excel_round(n + 0.5) = n + 1 and excel_round(-(n + 0.5)) = -(n + 1) for *)
(* every integer n >= 0; and excel_round(-x) = -excel_round(x).            *)
(***************************************************************************)
C25_RoundingLaw ==
    xout # <<>> =>
        LET r == xout[1]
            d == Abs(r * UnitsPerOne - xin)
            half == UnitsPerOne \div 2
        IN  /\ d <= half
            /\ d = half => Abs(r) * UnitsPerOne > Abs(xin)
            /\ (xin >= 0 /\ xin % UnitsPerOne = half) =>
                  r = (xin - half) \div UnitsPerOne + 1
            /\ excel_round_float(0 - xin) = 0 - r

(***************************************************************************)
(* C26  Mid-month table structure, as stated: the 27.5-year table has 29   *)
(* rows and the 39-year table 40; every interior year index (2..28,        *)
(* 2..39) holds the same flat annual rate whatever the month;              *)
(* building_rate returns 0 for a year index outside 1..max and clamps the  *)
(* month into 1..12.                                                       *)
(***************************************************************************)
RateDone == rateres # <<>>
RateMax == IF rateq.is_residential THEN 29 ELSE 40
RateFlat == IF rateq.is_residential THEN 3636 ELSE 2564
RateTable == IF rateq.is_residential THEN MACRS_27_5_YEAR ELSE MACRS_39_YEAR
RateMonth ==
    IF rateq.in_service_month < 1 THEN 1
    ELSE IF rateq.in_service_month > 12 THEN 12 ELSE rateq.in_service_month

RateEdges ==
    /\ DOMAIN MACRS_27_5_YEAR = 1..29
    /\ DOMAIN MACRS_39_YEAR = 1..40
    /\ (rateq.year_index < 1 \/ rateq.year_index > RateMax) => rateres[1] = 0
    /\ rateq.year_index \in 1..RateMax =>
          rateres[1] = RateTable[rateq.year_index][RateMonth]

C26_MidMonthStructure ==
    RateDone =>
        /\ RateEdges
        /\ rateq.year_index \in 2..(RateMax - 1) => rateres[1] = RateFlat

(* C26 amended: the flat rate fills years 2..39 of the 39-year table and   *)
(* years 2..27 of the 27.5-year table; year 28 of the 27.5-year table      *)
(* holds the flat rate for the months 7..12 only and a smaller,            *)
(* month-dependent rate for the months 1..6, for which year 29 holds 0.    *)
C26_MidMonthStructureExact ==
    RateDone =>
        /\ RateEdges
        /\ (~rateq.is_residential /\ rateq.year_index \in 2..39) =>
              rateres[1] = RateFlat
        /\ (rateq.is_residential /\ rateq.year_index \in 2..27) =>
              rateres[1] = RateFlat
        /\ (rateq.is_residential /\ rateq.year_index = 28) =>
              IF RateMonth >= 7 THEN rateres[1] = RateFlat
              ELSE /\ rateres[1] = 1970 + 303 * (RateMonth - 1)
                   /\ rateres[1] < RateFlat
        /\ (rateq.is_residential /\ rateq.year_index = 29 /\ RateMonth <= 6) =>
              rateres[1] = 0

(* year 28 of the 27.5-year table, looked up for a month before July that *)
(* had to be clamped                                                      *)
C26_Witness ==
    /\ RateDone
    /\ rateq.is_residential
    /\ rateq.year_index = 28
    /\ rateq.in_service_month < 1
    /\ rateres[1] = 1970

(***************************************************************************)
(* C27  Flattening: the payload's `yearly` has exactly one entry per       *)
(* calendar year for which at least one class produced a lookback row; the *)
(* entry holds each such class's depreciation under '5yr', '7yr', '15yr'   *)
(* or 'long' and no key for a class without a row; 'with_css' is the sum   *)
(* of the bucket values present and 'without_css' is the 'long' value,     *)
(* None when the building class has no row for the year.                   *)
(***************************************************************************)
ClassKeys == {"long", "15yr", "7yr", "5yr"}

ClassRows(series, k) == IF series[k] = <<>> THEN <<>> ELSE series[k][1].year_by_year

Produced(series, k, y) ==
    \E i \in 1..Len(ClassRows(series, k)) : ClassRows(series, k)[i].calendar_year = y

Depreciation(series, k, y) ==
    LET rows == ClassRows(series, k)
    IN  rows[CHOOSE i \in 1..Len(rows) : rows[i].calendar_year = y].depreciation

Present(series, k, y) == IF Produced(series, k, y) THEN Depreciation(series, k, y) ELSE 0

FlattenedFrom(yearly, series) ==
    /\ \A k \in ClassKeys : \A i \in 1..Len(ClassRows(series, k)) :
          ClassRows(series, k)[i].calendar_year \in DOMAIN yearly
    /\ \A y \in DOMAIN yearly :
          /\ \E k \in ClassKeys : Produced(series, k, y)
          /\ DOMAIN yearly[y] = { k \in ClassKeys : Produced(series, k, y) }
                                   \cup {"with_css", "without_css"}
          /\ \A k \in ClassKeys :
                Produced(series, k, y) => yearly[y][k] = <<Depreciation(series, k, y)>>
          /\ yearly[y].with_css =
                <<Present(series, "5yr", y) + Present(series, "7yr", y)
                  + Present(series, "15yr", y) + Present(series, "long", y)>>
          /\ yearly[y].without_css =
                IF Produced(series, "long", y)
                THEN <<Depreciation(series, "long", y)>> ELSE <<>>

ComSeries ==
    [k \in ClassKeys |->
        CASE k = "long" -> cout[1].res.lb_39
          [] k = "15yr" -> cout[1].res.lb_15
          [] k = "7yr" -> cout[1].res.lb_7
          [] k = "5yr" -> cout[1].res.lb_5]

ResSeries ==
    [k \in ClassKeys |->
        CASE k = "long" -> rout[1].res.lookback_building
          [] k = "15yr" -> rout[1].res.lookback_15
          [] k = "7yr" -> <<>>
          [] k = "5yr" -> rout[1].res.lookback_5]

C27_Flattening ==
    /\ ComMatched => FlattenedFrom(cout[1].payload.yearly, ComSeries)
    /\ ResDone => FlattenedFrom(rout[1].payload.yearly, ResSeries)

(* a residential payload with a year that has a 5-year row and no building *)
(* row, next to a commercial payload whose years all have their building   *)
(* row                                                                     *)
C27_Witness ==
    /\ ResDone /\ ComMatched
    /\ \E y \in DOMAIN rout[1].payload.yearly :
          /\ "long" \notin DOMAIN rout[1].payload.yearly[y]
          /\ "5yr" \in DOMAIN rout[1].payload.yearly[y]
          /\ rout[1].payload.yearly[y].without_css = <<>>
          /\ rout[1].payload.yearly[y].with_css[1] > 0
    /\ \A y \in DOMAIN cout[1].payload.yearly :
          "long" \in DOMAIN cout[1].payload.yearly[y]

(***************************************************************************)
(* C28  Depreciation never exceeds basis: for a rounded basis > 0 the      *)
(* lookback's cumulative depreciation is at most the original basis, so    *)
(* the net book value is >= 0; and the amounts of the full schedule sum to *)
(* at most the basis.                                                      *)
(***************************************************************************)
FullScheduleTotal == SumThrough(fs[1], DOMAIN fs[1], InYear + TableLength)

C28_NeverExceedsBasis ==
    /\ (lb # <<>> /\ lb[1].original_basis > 0) =>
          /\ lb[1].cumulative_depreciation <= lb[1].original_basis
          /\ lb[1].net_book_value >= 0
    /\ (fs # <<>> /\ RoundedBasis > 0) => FullScheduleTotal <= RoundedBasis

(***************************************************************************)
(* C29  Webhook delivery deduplication.  After any _seen_action(u) call:   *)
(* when u had no entry at most 3600 seconds old the call returned False    *)
(* and u is recorded with the time of the call; when it had one the call   *)
(* returned True and the entry keeps its time; every entry older than      *)
(* 3600 seconds at the call is gone, every younger one is kept.  A         *)
(* delivery without actionUuid is never answered as a duplicate.           *)
(***************************************************************************)
LiveBefore(c, k) ==
    k \in DOMAIN c.before /\ c.at - c.before[k] <= 3600

C29_Deduplication ==
    /\ lastcall # <<>> =>
          LET c == lastcall[1]
              u == c.action_uuid
          IN  /\ c.result = LiveBefore(c, u)
              /\ u \in DOMAIN seen
              /\ seen[u] = IF LiveBefore(c, u) THEN c.before[u] ELSE c.at
              /\ \A k \in DOMAIN c.before \ {u} :
                    IF LiveBefore(c, k)
                    THEN k \in DOMAIN seen /\ seen[k] = c.before[k]
                    ELSE k \notin DOMAIN seen
              /\ DOMAIN seen \subseteq DOMAIN c.before \cup {u}
    /\ \A i \in Handled : hook[i].uuid = "" => ~hook[i].deduped

(* the same actionUuid delivered three times: recorded at 0, answered as   *)
(* a duplicate 1800 seconds later, and processed again 3601 seconds after  *)
(* the first recording, the duplicate in between having refreshed nothing  *)
C29_Witness ==
    /\ Len(hook) = 3
    /\ \A i \in 1..3 : hook[i].pc = "done" /\ hook[i].uuid = "a"
                          /\ hook[i].order = i
    /\ hook[1].at = 0 /\ ~hook[1].deduped
    /\ hook[2].at = 1800 /\ hook[2].deduped
    /\ hook[3].at = 3601 /\ ~hook[3].deduped
    /\ seen["a"] = 3601

(***************************************************************************)
(* C30  At-most-once export per action.  Of the deliveries of one          *)
(* actionUuid handled within 3600 seconds of each other at most one enters *)
(* the export; and once a delivery has failed (missing item id, 400 or     *)
(* 500), every delivery of the same actionUuid handled after it within     *)
(* 3600 seconds is answered 200 with deduped = true and uploads nothing.   *)
(***************************************************************************)
Failed(i) == hook[i].status \in {400, 500}

C30_AtMostOnce ==
    \A i \in Handled : \A j \in Handled :
        (i # j /\ hook[i].uuid # "" /\ hook[i].uuid = hook[j].uuid
              /\ hook[i].order < hook[j].order
              /\ hook[j].at - hook[i].at <= 3600) =>
            /\ ~(hook[i].exported /\ hook[j].exported)
            /\ Failed(i) =>
                  /\ hook[j].status = 200
                  /\ hook[j].deduped
                  /\ ~hook[j].uploaded /\ ~hook[j].exported

(* two deliveries of one actionUuid whose handlers were both waiting for   *)
(* their body: the one that arrived second ran first and failed for the    *)
(* missing item id, the other one was then answered as a duplicate         *)
C30_Witness ==
    /\ Len(hook) >= 2
    /\ hook[1].pc = "done" /\ hook[2].pc = "done"
    /\ hook[1].uuid = "a" /\ hook[2].uuid = "a"
    /\ hook[2].order < hook[1].order
    /\ hook[2].fate = "missing_item_id" /\ hook[2].status = 400
    /\ hook[1].fate = "uploaded"
    /\ hook[1].status = 200 /\ hook[1].deduped /\ ~hook[1].uploaded

===========================================================================
